---- MODULE Spec2Model ----
(***************************************************************************)
(* A model of the bcachefs mark-and-reconcile garbage collector,           *)
(* fs/bcachefs/btree_gc.c.                                                 *)
(*                                                                         *)
(* The module holds several specifications over one set of variables:      *)
(*   SpecGens  the gens pass, bch2_gc_gens, beside the bucket allocator    *)
(*   Spec      the full pass, bch2_gc                                      *)
(*   SpecMut   the position cursor beside mutators of the references       *)
(*   SpecLock  the callers of bch2_gc, bch2_gc_gens and bch2_coalesce on    *)
(*             c->gc_lock                                                  *)
(*   SpecCoalesce  bch2_coalesce_nodes on a window of sibling nodes         *)
(*   SpecDone  bch2_gc_done on shadow states that differ from the live one *)
(*   SpecNoMem the full pass when the kmalloc of a repair may fail         *)
(*   SpecThread, SpecThreadFair  bch2_gc_thread beside the tasks that kick *)
(*             and stop it, without and with fairness                      *)
(* A specification leaves the variables of the others at their idle        *)
(* values.                                                                 *)
(***************************************************************************)
EXTENDS Integers, Sequences, FiniteSets, TLC

VARIABLES
    buckets,        \* buckets[0]: live bucket array, buckets[1]: shadow (gc) array
    flags,          \* c->flags: the BCH_FS_* bits that are set
    journal_keys,   \* the journal-key overlay
    gc_count,       \* c->gc_count
    keys,           \* the leaf keys the btree iterator yields, per btree
    gs_pc,          \* bch2_gc_gens: where the pass stands
    gs_b,           \* bch2_gc_gens: bucket cursor of the seeding and copying loops
    gs_i,           \* bch2_gc_gens: btree cursor (index into btree_ids)
    gs_k,           \* bch2_gc_btree_gens: iterator position in the current btree
    gs_ret,         \* bch2_gc_gens: ret
    gen_incs,       \* number of bucket invalidations by the allocator so far
    h_before,       \* history: the live bucket array when the gens pass started
    h_keys,         \* history: the leaf keys when the gens pass started
    h_commits,      \* history: <<btree, key index>> of every commit issued
    h_visit,        \* history: what the last key step did
    nodes,          \* the btree nodes: node number -> node
    usage,          \* usage[0]: c->usage_base, usage[1]: c->usage_gc
    open_buckets,   \* c->open_buckets: slot -> [valid, bucket]
    compat_alloc_info, \* c->sb.compat has BCH_COMPAT_FEAT_ALLOC_INFO
    gc_pos,         \* c->gc_pos
    gc_alloc,       \* the shadow allocations that exist
    gc_held,        \* the locks bch2_gc holds
    gc_pc,          \* bch2_gc: where the call stands
    gc_initial,     \* bch2_gc: initial
    mut_left,       \* mutator steps still allowed beside bch2_gc
    gc_iter,        \* bch2_gc: iter
    gc_ret,         \* bch2_gc: ret
    gc_i,           \* bch2_gc_btrees: i (index into the sorted ids)
    gc_walk,        \* bch2_gc_btree: the nodes the iterator has yet to yield
    gc_ob,          \* bch2_mark_allocator_buckets: ob (slot number)
    eio_left,       \* node reads that may still fail with -EIO
    run,            \* "first", "second" call of bch2_gc, or "over"
    h_bug,          \* history: the BUG_ONs that fired
    h_passes,       \* history: mark passes started by the current call
    h_marked,       \* history: the keys marked by the current pass, in order,
                    \* each with the pointers bch2_mark_key was given
    h_err,          \* history: the errors bch2_gc_mark_key returned during the
                    \* current pass, each with the number of keys marked by then
    h_fsck,         \* history: fsck errors reported by the current call
    h_set_alloc_write, \* history: the current call set BCH_FS_NEED_ALLOC_WRITE
    h_first,        \* history: live state and ret when the first call returned
    gc_lock,        \* c->gc_lock: [writer, readers]
    lk_pc,          \* per thread: the function it is in and where it stands
    co,             \* bch2_coalesce_nodes: [pc, old_nodes, new_nodes, i, keylist, parent]
    nomem_left,     \* kmalloc calls of the repairs that may still fail
    h_woken,        \* history: whom the current call of bch2_gc has woken
    gc_dims,        \* first_bucket and nbuckets of the shadow bucket array
    stripes,        \* stripes[0]: c->stripes[0], stripes[1]: c->stripes[1]
    th              \* bch2_gc_thread and the tasks that kick, stop and wake it

bucketVars == <<buckets, flags, journal_keys, gc_count>>
gensVars   == <<keys, gs_pc, gs_b, gs_i, gs_k, gs_ret, gen_incs,
                h_before, h_keys, h_commits, h_visit>>
gcVars     == <<nodes, usage, open_buckets, compat_alloc_info, gc_pos, gc_alloc,
                gc_held, gc_pc, gc_initial, gc_iter, gc_ret, gc_i, gc_walk, gc_ob,
                eio_left, run, h_bug, h_passes, h_marked, h_err, h_fsck,
                h_set_alloc_write, h_first, mut_left, nomem_left, h_woken, gc_dims>>
auxVars    == <<nomem_left, h_woken, gc_dims>>
lockVars   == <<gc_lock, lk_pc>>
otherVars  == <<lockVars, co, stripes, th>>
vars       == <<bucketVars, gensVars, gcVars, otherVars>>

\* bch2_gc is not running and is not called
GcIdle ==
    /\ nodes = <<>>
    /\ usage = <<>>
    /\ open_buckets = <<>>
    /\ compat_alloc_info = TRUE
    /\ gc_pos = [phase |-> "NOT_RUNNING", pos |-> 0, level |-> 0]
    /\ gc_alloc = {}
    /\ gc_held = {}
    /\ gc_pc = "off"
    /\ gc_initial = FALSE
    /\ mut_left = 0
    /\ gc_iter = 0
    /\ gc_ret = "0"
    /\ gc_i = 1
    /\ gc_walk = <<>>
    /\ gc_ob = 0
    /\ eio_left = 0
    /\ run = "over"
    /\ h_bug = {}
    /\ h_passes = 0
    /\ h_marked = <<>>
    /\ h_err = <<>>
    /\ h_fsck = {}
    /\ h_set_alloc_write = FALSE
    /\ h_first = <<>>
    /\ nomem_left = 0
    /\ h_woken = {}
    /\ gc_dims = [first_bucket |-> 0, nbuckets |-> 0]

\* the threads that may call bch2_gc, bch2_gc_gens and bch2_coalesce
MaxLockThreads == 3
LockThreads == 1..MaxLockThreads

\* nobody holds c->gc_lock or is about to take it
LockIdle ==
    /\ gc_lock = [writer |-> FALSE, readers |-> 0]
    /\ lk_pc = [t \in LockThreads |-> "idle"]

\* bch2_coalesce_nodes is not running
CoIdle == co = [pc |-> "off", old_nodes |-> <<>>, new_nodes |-> <<>>, i |-> 0,
                keylist |-> <<>>, parent |-> {}]

\* a filesystem without stripes: both radix trees are empty
StripesIdle == stripes = [a \in 0..1 |-> <<>>]

\* the gc thread does not exist
ThreadIdle == th = [pc |-> "off"]

----------------------------------------------------------------------------
(* Bounds of the model *)

\* the most pointers the leaf keys of one btree hold together
MaxPtrs == 2

\* the most bucket invalidations (gen increments) the allocator does in a run
MaxGenIncs == 1

\* bucket numbers; the (device, bucket) pairs of the member devices, flattened
Buckets == 0..1

\* key slots of a leaf-key btree
KeyIdx == 1..2

----------------------------------------------------------------------------
(* Generations: 8-bit counters compared by signed distance *)

GenMod == 256

gen_cmp(a, b) ==
    LET d == (a - b + GenMod) % GenMod
    IN  IF d >= GenMod \div 2 THEN d - GenMod ELSE d

gen_after(a, b) ==
    IF gen_cmp(a, b) > 0 THEN gen_cmp(a, b) ELSE 0

\* the lag beyond which the gens pass rewrites a key
GENS_REWRITE_LAG == 16

----------------------------------------------------------------------------
(* Buckets *)

ZeroBucket ==
    [gen |-> 0, gen_valid |-> FALSE, data_type |-> "free",
     owned_by_allocator |-> FALSE, stripe |-> FALSE,
     dirty_sectors |-> 0, cached_sectors |-> 0,
     oldest_gen |-> 0, gc_gen |-> 0]

ZeroBuckets == [b \in Buckets |-> ZeroBucket]

\* PTR_BUCKET(ca, ptr, gc)
PTR_BUCKET(ptr, gc) == buckets[IF gc THEN 1 ELSE 0][ptr.bucket]

----------------------------------------------------------------------------
(* Btrees *)

\* the btree ids, in id order (a subset of the filesystem's btrees)
btree_ids == <<"extents", "dirents", "ec">>

BtreeIds == {btree_ids[i] : i \in 1..Len(btree_ids)}

\* node types whose keys carry triggers; "btree" is the type of interior nodes
btree_node_type_needs_gc(type) == type \in {"extents", "ec", "btree"}

----------------------------------------------------------------------------
(* Keys and pointers.  A pointer is [bucket, gen, cached]; a leaf key of    *)
(* the gens pass is [ptrs], its pointer entries in order.                   *)

RECURSIVE SeqSum(_)
SeqSum(s) == IF s = <<>> THEN 0 ELSE Head(s) + SeqSum(Tail(s))

SeqsUpTo(S, n) == UNION {[1..m -> S] : m \in 0..n}

\* the pointers of s that are not in drop, in order
RECURSIVE FilterPtrs(_, _)
FilterPtrs(s, drop) ==
    IF s = <<>> THEN <<>>
    ELSE IF Head(s) \in drop THEN FilterPtrs(Tail(s), drop)
         ELSE <<Head(s)>> \o FilterPtrs(Tail(s), drop)

PtrsOf(k) == {k.ptrs[j] : j \in 1..Len(k.ptrs)}

\* every pointer of every leaf key of ks (a function btree id -> keys)
AllPtrs(ks) ==
    UNION {UNION {PtrsOf(ks[id][j]) : j \in 1..Len(ks[id])} : id \in DOMAIN ks}

----------------------------------------------------------------------------
(* The gens pass: bch2_gc_gens                                              *)

\* ptr_stale(ca, ptr): how far the bucket's gen is ahead of the pointer's
ptr_stale(ptr) == gen_after(PTR_BUCKET(ptr, FALSE).gen, ptr.gen)

\* a slip: the threshold is compared with >=
gens_key_lagging_ge(k) ==
    \E j \in 1..Len(k.ptrs) :
        gen_after(PTR_BUCKET(k.ptrs[j], FALSE).gen, k.ptrs[j].gen) >= GENS_REWRITE_LAG

\* the first loop of gc_btree_gens_key: some pointer lags by more than 16
gens_key_lagging(k) ==
    \E j \in 1..Len(k.ptrs) :
        gen_after(PTR_BUCKET(k.ptrs[j], FALSE).gen, k.ptrs[j].gen) > GENS_REWRITE_LAG

\* a slip: every pointer's gen is compared with, and stored in, the bucket of
\* the key's first pointer
RECURSIVE gens_lower_first_bucket(_, _, _)
gens_lower_first_bucket(ptrs, arr, first) ==
    IF ptrs = <<>> THEN arr
    ELSE gens_lower_first_bucket(Tail(ptrs),
             IF gen_after(arr[first].gc_gen, Head(ptrs).gen) > 0
             THEN [arr EXCEPT ![first].gc_gen = Head(ptrs).gen]
             ELSE arr, first)

gens_lower_gc_gen_wrong_bucket(ptrs, arr) ==
    IF ptrs = <<>> THEN arr ELSE gens_lower_first_bucket(ptrs, arr, Head(ptrs).bucket)

\* a slip: the gens are compared as plain numbers, without the wrap-around
RECURSIVE gens_lower_gc_gen_unsigned(_, _)
gens_lower_gc_gen_unsigned(ptrs, arr) ==
    IF ptrs = <<>> THEN arr
    ELSE gens_lower_gc_gen_unsigned(Tail(ptrs),
             IF arr[Head(ptrs).bucket].gc_gen > Head(ptrs).gen
             THEN [arr EXCEPT ![Head(ptrs).bucket].gc_gen = Head(ptrs).gen]
             ELSE arr)

\* the second loop of gc_btree_gens_key, pointer by pointer, on a bucket array
RECURSIVE gens_lower_gc_gen(_, _)
gens_lower_gc_gen(ptrs, arr) ==
    IF ptrs = <<>> THEN arr
    ELSE LET ptr == Head(ptrs)
             g   == arr[ptr.bucket]
         IN  gens_lower_gc_gen(Tail(ptrs),
                 IF gen_after(g.gc_gen, ptr.gen) > 0
                 THEN [arr EXCEPT ![ptr.bucket].gc_gen = ptr.gen]
                 ELSE arr)

\* bch2_extent_normalize: the key without its stale pointers
bch2_extent_normalize(k) ==
    [k EXCEPT !.ptrs = FilterPtrs(k.ptrs, {p \in PtrsOf(k) : ptr_stale(p) > 0})]

\* what bch2_trans_commit may return
CommitOutcomes == {"0", "-EINTR", "-EROFS"}

NextBucket(b) == b + 1
LastBucket == CHOOSE b \in Buckets : \A o \in Buckets : o <= b

\* a slip: the assignment of the seeding loop is the wrong way round
gens_seed_bucket_swapped(arr, b) == [arr EXCEPT ![b].gen = arr[b].gc_gen]

\* g->gc_gen = g->mark.gen
gens_seed_bucket(arr, b) == [arr EXCEPT ![b].gc_gen = arr[b].gen]

\* a slip: the copying loop reads the first bucket's gc_gen for every bucket
gens_copy_bucket_first(arr, b) == [arr EXCEPT ![b].oldest_gen = arr[0].gc_gen]

\* g->oldest_gen = g->gc_gen
gens_copy_bucket(arr, b) == [arr EXCEPT ![b].oldest_gen = arr[b].gc_gen]

GensStart ==
    /\ gs_pc = "idle"
    /\ gs_pc' = "seed"
    /\ gs_b' = 0
    /\ h_before' = buckets[0]
    /\ h_keys' = keys
    /\ UNCHANGED <<bucketVars, keys, gs_i, gs_k, gs_ret, gen_incs, h_commits, h_visit, gcVars, otherVars>>

\* for_each_bucket(g, buckets) g->gc_gen = g->mark.gen
GensSeed ==
    /\ gs_pc = "seed"
    /\ buckets' = [buckets EXCEPT ![0] = gens_seed_bucket(buckets[0], gs_b)]
    /\ IF gs_b = LastBucket
       THEN gs_pc' = "walk" /\ gs_b' = 0 /\ gs_i' = 1 /\ gs_k' = 1
       ELSE gs_pc' = "seed" /\ gs_b' = NextBucket(gs_b) /\ UNCHANGED <<gs_i, gs_k>>
    /\ UNCHANGED <<flags, journal_keys, gc_count, keys, gs_ret, gen_incs,
                   h_before, h_keys, h_commits, h_visit, gcVars, otherVars>>

InWalk == gs_pc = "walk" /\ gs_i <= Len(btree_ids)

\* if (btree_node_type_needs_gc(i)) fails: the btree is not walked
GensSkipBtree ==
    /\ InWalk
    /\ ~btree_node_type_needs_gc(btree_ids[gs_i])
    /\ gs_i' = gs_i + 1
    /\ gs_k' = 1
    /\ UNCHANGED <<bucketVars, keys, gs_pc, gs_b, gs_ret, gen_incs,
                   h_before, h_keys, h_commits, h_visit, gcVars, otherVars>>

\* bch2_btree_iter_peek finds no further key: bch2_gc_btree_gens returns 0
GensBtreeEnd ==
    /\ InWalk
    /\ btree_node_type_needs_gc(btree_ids[gs_i])
    /\ gs_k > Len(keys[btree_ids[gs_i]])
    /\ gs_i' = gs_i + 1
    /\ gs_k' = 1
    /\ UNCHANGED <<bucketVars, keys, gs_pc, gs_b, gs_ret, gen_incs,
                   h_before, h_keys, h_commits, h_visit, gcVars, otherVars>>

\* bkey_err(k): the iterator fails; bch2_gc_gens takes "goto err"
GensPeekErr ==
    /\ InWalk
    /\ btree_node_type_needs_gc(btree_ids[gs_i])
    /\ gs_ret' = "-EIO"
    /\ gs_pc' = "done"
    /\ UNCHANGED <<bucketVars, keys, gs_b, gs_i, gs_k, gen_incs,
                   h_before, h_keys, h_commits, h_visit, gcVars, otherVars>>

\* one turn of the loop of bch2_gc_btree_gens on the key under the iterator
GensKey ==
    /\ InWalk
    /\ btree_node_type_needs_gc(btree_ids[gs_i])
    /\ gs_k <= Len(keys[btree_ids[gs_i]])
    /\ LET id == btree_ids[gs_i]
           k  == keys[id][gs_k]
       IN  IF gens_key_lagging(k)
           THEN \E r \in CommitOutcomes :
                  /\ h_commits' = h_commits \cup {<<id, gs_k>>}
                  /\ h_visit' = [id |-> id, idx |-> gs_k, key |-> k, commit |-> TRUE,
                                 ret |-> r, before |-> buckets[0], after |-> buckets[0]]
                  /\ UNCHANGED bucketVars
                  /\ CASE r = "0" ->
                            /\ keys' = [keys EXCEPT ![id][gs_k] = bch2_extent_normalize(k)]
                            /\ gs_k' = gs_k + 1
                            /\ UNCHANGED <<gs_pc, gs_ret>>
                       [] r = "-EINTR" ->
                            UNCHANGED <<keys, gs_k, gs_pc, gs_ret>>
                       [] OTHER ->
                            /\ gs_ret' = r
                            /\ gs_pc' = "done"
                            /\ UNCHANGED <<keys, gs_k>>
           ELSE /\ buckets' = [buckets EXCEPT ![0] = gens_lower_gc_gen(k.ptrs, buckets[0])]
                /\ h_visit' = [id |-> id, idx |-> gs_k, key |-> k, commit |-> FALSE,
                               ret |-> "0", before |-> buckets[0], after |-> buckets'[0]]
                /\ gs_k' = gs_k + 1
                /\ UNCHANGED <<flags, journal_keys, gc_count, keys, gs_pc, gs_ret, h_commits>>
    /\ UNCHANGED <<gs_b, gs_i, gen_incs, h_before, h_keys, gcVars, otherVars>>

\* every btree is done: go on to the copying loop
GensWalkDone ==
    /\ gs_pc = "walk"
    /\ gs_i > Len(btree_ids)
    /\ gs_pc' = "copy"
    /\ gs_b' = 0
    /\ UNCHANGED <<bucketVars, keys, gs_i, gs_k, gs_ret, gen_incs,
                   h_before, h_keys, h_commits, h_visit, gcVars, otherVars>>

\* for_each_bucket(g, buckets) g->oldest_gen = g->gc_gen; then c->gc_count++
GensCopy ==
    /\ gs_pc = "copy"
    /\ buckets' = [buckets EXCEPT ![0] = gens_copy_bucket(buckets[0], gs_b)]
    /\ IF gs_b = LastBucket
       THEN gs_pc' = "done" /\ gs_ret' = "0" /\ gc_count' = gc_count + 1
            /\ UNCHANGED gs_b
       ELSE gs_b' = NextBucket(gs_b) /\ UNCHANGED <<gs_pc, gs_ret, gc_count>>
    /\ UNCHANGED <<flags, journal_keys, keys, gs_i, gs_k, gen_incs,
                   h_before, h_keys, h_commits, h_visit, gcVars, otherVars>>

\* The allocator invalidates a bucket that holds no dirty data: its gen goes up
\* by one and the cached pointers into it become stale.
AllocIncGen ==
    \E b \in Buckets :
        /\ gen_incs < MaxGenIncs
        /\ \A p \in AllPtrs(keys) : p.bucket = b => p.cached
        /\ buckets' = [buckets EXCEPT ![0][b].gen = (buckets[0][b].gen + 1) % GenMod]
        /\ gen_incs' = gen_incs + 1
        /\ UNCHANGED <<flags, journal_keys, gc_count, keys, gs_pc, gs_b, gs_i, gs_k,
                       gs_ret, h_before, h_keys, h_commits, h_visit, gcVars, otherVars>>

(* Inputs of the gens pass *)

InitGen(b) == IF b = 0 THEN 20 ELSE 2

\* a pointer is dirty and current, or cached and behind its bucket by one of these
GensCachedLags == {0, 16, 17}

GensPtrChoices ==
    {[bucket |-> b, gen |-> InitGen(b), cached |-> FALSE] : b \in Buckets}
    \cup {[bucket |-> b, gen |-> (InitGen(b) - lag + GenMod) % GenMod, cached |-> TRUE] :
            b \in Buckets, lag \in GensCachedLags}

GensKeyInputs ==
    {ks \in [KeyIdx -> SeqsUpTo(GensPtrChoices, MaxPtrs)] :
        SeqSum([j \in KeyIdx |-> Len(ks[j])]) <= MaxPtrs}

\* the oldest pointer gen into bucket b, or the bucket's gen when nothing points to it
OldestPtrGen(ks, b) ==
    LET gs == {p.gen : p \in {q \in AllPtrs(ks) : q.bucket = b}} \cup {InitGen(b)}
    IN  CHOOSE g \in gs : \A o \in gs : gen_cmp(g, o) <= 0

\* oldest_gen is a lower bound on the pointer gens, exact or one too low; gc_gen
\* is what an earlier pass left in it
InitGensBucket(ks, b, slack) ==
    [ZeroBucket EXCEPT !.gen = InitGen(b), !.gen_valid = TRUE,
                       !.gc_gen = (OldestPtrGen(ks, b) - slack + GenMod) % GenMod,
                       !.oldest_gen = (OldestPtrGen(ks, b) - slack + GenMod) % GenMod]

InitGens ==
    /\ \E ks \in GensKeyInputs, slack \in 0..1 :
         /\ keys = [id \in BtreeIds |->
                      IF id = "extents" THEN [j \in KeyIdx |-> [ptrs |-> ks[j]]]
                      ELSE <<[ptrs |-> <<>>]>>]
         /\ buckets = [a \in 0..1 |->
                         IF a = 0 THEN [b \in Buckets |-> InitGensBucket(keys, b, slack)]
                         ELSE ZeroBuckets]
    /\ flags = {}
    /\ journal_keys = {}
    /\ gc_count = 0
    /\ gs_pc = "idle" /\ gs_b = 0 /\ gs_i = 1 /\ gs_k = 1 /\ gs_ret = "0"
    /\ gen_incs = 0
    /\ h_before = buckets[0]
    /\ h_keys = keys
    /\ h_commits = {}
    /\ h_visit = [id |-> "", idx |-> 0, key |-> [ptrs |-> <<>>], commit |-> FALSE,
                  ret |-> "0", before |-> buckets[0], after |-> buckets[0]]
    /\ GcIdle
    /\ LockIdle
    /\ StripesIdle
    /\ ThreadIdle
    /\ CoIdle

NextGens ==
    \/ GensStart
    \/ GensSeed
    \/ GensSkipBtree
    \/ GensBtreeEnd
    \/ GensPeekErr
    \/ GensKey
    \/ GensWalkDone
    \/ GensCopy
    \/ AllocIncGen

SpecGens == InitGens /\ [][NextGens]_vars

----------------------------------------------------------------------------
(* Claims about the gens pass, checked under SpecGens *)

GensDone == gs_pc = "done"
GensOk   == gs_pc = "done" /\ gs_ret = "0"

\* the pointers that the leaf keys of the GC-relevant btrees hold now
GensLivePtrs ==
    AllPtrs([id \in {i \in BtreeIds : btree_node_type_needs_gc(i)} |-> keys[id]])

\* C6: when the gens pass has completed, oldest_gen of every bucket is not older
\* (in generation order) than it was when the pass started.
C6_OldestGenOnlyAdvances ==
    GensDone =>
        \A b \in Buckets :
            gen_cmp(buckets[0][b].oldest_gen, h_before[b].oldest_gen) >= 0

\* C6 witness: a pass ran to its end and moved some bucket's oldest_gen forward.
C6_Witness ==
    /\ GensOk
    /\ \E b \in Buckets :
          gen_cmp(buckets[0][b].oldest_gen, h_before[b].oldest_gen) > 0

\* C7: after a successful gens pass, oldest_gen of a bucket is not newer than the
\* gen of any pointer into it that a leaf key of a GC-relevant btree still holds,
\* the pointers left in rewritten keys included.
C7_OldestGenLowerBound ==
    GensOk =>
        \A p \in GensLivePtrs :
            gen_cmp(buckets[0][p.bucket].oldest_gen, p.gen) <= 0

\* C7 witness: a successful pass rewrote a key that keeps a pointer, and another
\* key kept a pointer that lags its bucket.
C7_Witness ==
    /\ GensOk
    /\ \E c \in h_commits : keys[c[1]][c[2]].ptrs # <<>>
    /\ \E p \in GensLivePtrs : gen_cmp(buckets[0][p.bucket].gen, p.gen) > 0

\* C8: when the gens pass has completed, oldest_gen <= gen (in generation order)
\* for every bucket, also when the allocator raised gens during the pass.
C8_OldestGenAtMostGen ==
    GensDone =>
        \A b \in Buckets :
            gen_cmp(buckets[0][b].oldest_gen, buckets[0][b].gen) <= 0

\* C8 witness: a successful pass during which the allocator raised the gen of a
\* bucket that a key points to.
C8_Witness ==
    /\ GensOk
    /\ \E p \in GensLivePtrs :
          /\ buckets[0][p.bucket].gen # h_before[p.bucket].gen
          /\ buckets[0][p.bucket].oldest_gen # buckets[0][p.bucket].gen

\* a bucket with gc_gen and oldest_gen masked out
GensFrame(g) == [g EXCEPT !.gc_gen = 0, !.oldest_gen = 0]

\* C9: a step of the gens pass (any step but the allocator's) changes no bucket
\* field other than gc_gen and oldest_gen, in particular no gen, and leaves the
\* shadow array, the flags and the journal-key overlay alone; when the pass
\* returns an error, oldest_gen of every bucket is what it was at the start.
C9_GensFrame ==
    /\ [][gen_incs' = gen_incs =>
            /\ \A b \in Buckets : GensFrame(buckets'[0][b]) = GensFrame(buckets[0][b])
            /\ buckets'[1] = buckets[1]
            /\ journal_keys' = journal_keys
            /\ flags' = flags]_vars
    /\ [](GensDone /\ gs_ret # "0" =>
            \A b \in Buckets : buckets[0][b].oldest_gen = h_before[b].oldest_gen)

\* C9 witness: the pass failed after a key step had lowered some gc_gen below the
\* value oldest_gen must keep.
C9_Witness ==
    /\ GensDone
    /\ gs_ret # "0"
    /\ \E b \in Buckets : buckets[0][b].gc_gen # buckets[0][b].oldest_gen

\* the least gen of a set, in generation order
MinGen(S) == CHOOSE g \in S : \A o \in S : gen_cmp(g, o) <= 0

\* C10: a key step issues a commit exactly when one of the key's pointers lags
\* its bucket's gen by more than 16; such a step lowers no gc_gen; a step on a
\* key with no such pointer leaves every bucket's gc_gen at the minimum of its
\* old value and the gens of the key's pointers into it.  A bucket of gen 20
\* whose only pointer has gen 3 ends a successful pass with oldest_gen = 20.
C10_RewriteThreshold ==
    /\ h_visit.idx > 0 =>
         LET v       == h_visit
             lag(p)  == gen_after(v.before[p.bucket].gen, p.gen)
             lagging == \E p \in PtrsOf(v.key) : lag(p) > 16
         IN  /\ v.commit <=> lagging
             /\ lagging => \A b \in Buckets : v.after[b].gc_gen = v.before[b].gc_gen
             /\ ~lagging =>
                  \A b \in Buckets :
                      v.after[b].gc_gen =
                          MinGen({v.before[b].gc_gen}
                                 \cup {p.gen : p \in {q \in PtrsOf(v.key) : q.bucket = b}})
    /\ \A c \in h_commits : h_keys[c[1]][c[2]].ptrs # <<>>
    /\ GensOk =>
         \A b \in Buckets :
             (/\ h_before[b].gen = 20
              /\ buckets[0][b].gen = 20
              /\ {p.gen : p \in {q \in AllPtrs(h_keys) : q.bucket = b}} = {3})
             => buckets[0][b].oldest_gen = 20

\* C10 witness: the bucket of gen 20 whose only pointer has gen 3, after a
\* successful pass that committed the rewrite of that key.
C10_Witness ==
    /\ GensOk
    /\ h_commits # {}
    /\ \E b \in Buckets :
          /\ h_before[b].gen = 20
          /\ buckets[0][b].gen = 20
          /\ {p.gen : p \in {q \in AllPtrs(h_keys) : q.bucket = b}} = {3}
          /\ buckets[0][b].oldest_gen = 20
          /\ h_before[b].oldest_gen # 20

----------------------------------------------------------------------------
(* The full pass: bch2_gc.  The filesystem it runs on.                      *)

POS_MIN == 0
POS_MAX == 9
BTREE_MAX_DEPTH == 4

\* one device: superblock and journal buckets, two buckets of btree nodes,
\* two of user data, one on a free list, one behind each open-bucket slot
GcBuckets == {"sb", "journal", "bt1", "bt2", "u1", "u2", "free_inc", "ob1", "ob2"}

GcInitGen(b) == IF b \in {"u1", "u2"} THEN 7 ELSE 5

\* ca->mi.bucket_size, the sectors of the superblock, c->opts.btree_node_size
Geometry == [bucket_size |-> 16, sb_sectors |-> 8, btree_node_size |-> 4]

\* c->open_buckets; slot 0 is the head of the free list and is never valid
OpenBucketSlots == 0..2
OpenBucketOf(slot) == IF slot = 1 THEN "ob1" ELSE "ob2"

NodeIds == 1..8

\* a key: position, type, size, pointer entries, and for a btree pointer the
\* min_key it records and the node it leads to
BtreePtr(p, min_key, child, ptr) ==
    [p |-> p, type |-> "btree_ptr_v2", size |-> 0, ptrs |-> <<ptr>>,
     min_key |-> min_key, child |-> child]
Extent(p, size, ptrs) ==
    [p |-> p, type |-> "extent", size |-> size, ptrs |-> ptrs,
     min_key |-> POS_MIN, child |-> 0]
Dirent(p) ==
    [p |-> p, type |-> "dirent", size |-> 0, ptrs |-> <<>>,
     min_key |-> POS_MIN, child |-> 0]

\* struct btree: b->c.btree_id, b->c.level, b->data->min_key and max_key,
\* btree_node_fake(b), b->key, and the keys of the node in order
Node(id, level, min_key, max_key, fake, key, ks) ==
    [btree_id |-> id, level |-> level, min_key |-> min_key, max_key |-> max_key,
     fake |-> fake, key |-> key, keys |-> ks]

\* The damage a filesystem may carry: a pointer whose gen is one behind or
\* one ahead of its bucket's, a bucket the alloc btree has no gen for, a
\* bucket whose recorded sector count is off; and, no damage, a bucket whose
\* live oldest_gen still stands at the gen of a pointer that is gone.
Fault(kind, node, key, ptr, bucket) ==
    [kind |-> kind, node |-> node, key |-> key, ptr |-> ptr, bucket |-> bucket]

\* pointer ptr of key `key` (0: the node's own key) of node n, into bucket b
FaultyPtr(F, n, key, ptr, b, cached) ==
    LET fs == {f \in F : f.node = n /\ f.key = key /\ f.ptr = ptr}
        d  == IF fs = {} THEN 0
              ELSE IF (CHOOSE f \in fs : TRUE).kind = "stale" THEN -1 ELSE 1
    IN  [bucket |-> b, gen |-> GcInitGen(b) + d, cached |-> cached]

\* a btree pointer whose recorded range is off: its min_key one past the
\* place it should start at, or its position one short of where it should end
FaultyRange(F, n, key, k) ==
    LET kinds == {f.kind : f \in {g \in F : g.node = n /\ g.key = key}}
    IN  [k EXCEPT !.min_key = IF "min_key" \in kinds THEN @ + 1 ELSE @,
                  !.p = IF "max_key" \in kinds THEN @ - 1 ELSE @]

\* The btrees: extents has three levels (root 1, interior nodes 2 and 3,
\* leaves 4 and 5), dirents two (root 6, leaf 7), ec an empty fake root (8).
Forest(F) ==
    [n \in NodeIds |->
       CASE n = 1 -> Node("extents", 2, POS_MIN, POS_MAX, FALSE,
                          BtreePtr(POS_MAX, POS_MIN, 1, FaultyPtr(F, 1, 0, 1, "bt1", FALSE)),
                          <<BtreePtr(4, POS_MIN, 2, FaultyPtr(F, 1, 1, 1, "bt1", FALSE)),
                            FaultyRange(F, 1, 2,
                              BtreePtr(POS_MAX, 5, 3, FaultyPtr(F, 1, 2, 1, "bt1", FALSE)))>>)
         [] n = 2 -> Node("extents", 1, POS_MIN, 4, FALSE,
                          BtreePtr(4, POS_MIN, 2, FaultyPtr(F, 1, 1, 1, "bt1", FALSE)),
                          <<FaultyRange(F, 2, 1,
                              BtreePtr(4, POS_MIN, 4, FaultyPtr(F, 2, 1, 1, "bt1", FALSE)))>>)
         [] n = 3 -> Node("extents", 1, 5, POS_MAX, FALSE,
                          BtreePtr(POS_MAX, 5, 3, FaultyPtr(F, 1, 2, 1, "bt1", FALSE)),
                          <<BtreePtr(POS_MAX, 5, 5, FaultyPtr(F, 3, 1, 1, "bt1", FALSE))>>)
         [] n = 4 -> Node("extents", 0, POS_MIN, 4, FALSE,
                          BtreePtr(4, POS_MIN, 4, FaultyPtr(F, 2, 1, 1, "bt1", FALSE)),
                          <<Extent(2, 8, <<FaultyPtr(F, 4, 1, 1, "u1", FALSE)>>)>>)
         [] n = 5 -> Node("extents", 0, 5, POS_MAX, FALSE,
                          BtreePtr(POS_MAX, 5, 5, FaultyPtr(F, 3, 1, 1, "bt1", FALSE)),
                          <<Extent(7, 8, <<FaultyPtr(F, 5, 1, 1, "u1", FALSE),
                                           FaultyPtr(F, 5, 1, 2, "u2", TRUE)>>)>>)
         [] n = 6 -> Node("dirents", 1, POS_MIN, POS_MAX, FALSE,
                          BtreePtr(POS_MAX, POS_MIN, 6, FaultyPtr(F, 6, 0, 1, "bt2", FALSE)),
                          <<BtreePtr(POS_MAX, POS_MIN, 7, FaultyPtr(F, 6, 1, 1, "bt2", FALSE))>>)
         [] n = 7 -> Node("dirents", 0, POS_MIN, POS_MAX, FALSE,
                          BtreePtr(POS_MAX, POS_MIN, 7, FaultyPtr(F, 6, 1, 1, "bt2", FALSE)),
                          <<Dirent(3)>>)
         [] OTHER -> Node("ec", 0, POS_MIN, POS_MAX, TRUE, Dirent(POS_MAX), <<>>)]

\* c->btree_roots[id].b
btree_roots(id) == IF id = "extents" THEN 1 ELSE IF id = "dirents" THEN 6 ELSE 8

----------------------------------------------------------------------------
(* The journal-key overlay and the iterator that reads a node through it    *)

\* an overlay entry is [btree_id, level, pos, deleted, k]
bch2_journal_key_insert(jk, id, level, k) ==
    {e \in jk : ~(e.btree_id = id /\ e.level = level /\ e.pos = k.p)}
    \cup {[btree_id |-> id, level |-> level, pos |-> k.p, deleted |-> FALSE, k |-> k]}

bch2_journal_key_delete(jk, id, level, pos) ==
    {e \in jk : ~(e.btree_id = id /\ e.level = level /\ e.pos = pos)}
    \cup {[btree_id |-> id, level |-> level, pos |-> pos, deleted |-> TRUE,
           k |-> Dirent(pos)]}

\* the keys of node b from position p on: at each position the overlay's
\* entry wins over the node's key, and a deletion hides it
RECURSIVE btree_and_journal_iter_from(_, _, _)
btree_and_journal_iter_from(b, jk, p) ==
    IF p > b.max_key THEN <<>>
    ELSE LET js == {e \in jk : e.btree_id = b.btree_id /\ e.level = b.level /\ e.pos = p}
             ns == {j \in 1..Len(b.keys) : b.keys[j].p = p}
             here == IF js # {}
                     THEN LET e == CHOOSE e \in js : TRUE
                          IN  IF e.deleted THEN <<>> ELSE <<e.k>>
                     ELSE IF ns # {} THEN <<b.keys[CHOOSE j \in ns : TRUE]>>
                     ELSE <<>>
         IN  here \o btree_and_journal_iter_from(b, jk, p + 1)

btree_and_journal_iter(b, jk) == btree_and_journal_iter_from(b, jk, b.min_key)

----------------------------------------------------------------------------
(* The position cursor                                                      *)

\* enum gc_phase, in order; the phase of a btree is declared apart from its id
gc_phases ==
    <<"NOT_RUNNING", "START", "SB", "PENDING_DELETE",
      "BTREE_ec", "BTREE_extents", "BTREE_dirents", "ALLOC">>

PhaseNr(ph) == CHOOSE i \in 1..Len(gc_phases) : gc_phases[i] = ph

btree_id_to_gc_phase(id) ==
    IF id = "ec" THEN "BTREE_ec"
    ELSE IF id = "extents" THEN "BTREE_extents" ELSE "BTREE_dirents"

\* struct gc_pos: phase, pos, level
gc_phase(ph) == [phase |-> ph, pos |-> POS_MIN, level |-> 0]
gc_pos_btree(id, pos, level) ==
    [phase |-> btree_id_to_gc_phase(id), pos |-> pos, level |-> level]
gc_pos_btree_node(b) == gc_pos_btree(b.btree_id, b.key.p, b.level)
gc_pos_btree_root(id) == gc_pos_btree(id, POS_MAX, BTREE_MAX_DEPTH)
\* ob is the slot number, 0 for NULL
gc_pos_alloc(ob) == [phase |-> "ALLOC", pos |-> ob, level |-> 0]

cmp_int(l, r) == IF l < r THEN -1 ELSE IF l > r THEN 1 ELSE 0

\* phase first, then position, then level
gc_pos_cmp(l, r) ==
    IF l.phase # r.phase THEN cmp_int(PhaseNr(l.phase), PhaseNr(r.phase))
    ELSE IF l.pos # r.pos THEN cmp_int(l.pos, r.pos)
    ELSE cmp_int(l.level, r.level)

\* gc_visited(c, pos): the sweep is at or past pos
gc_visited(cur, pos) == gc_pos_cmp(cur, pos) >= 0

btree_id_gc_phase_cmp(l, r) ==
    PhaseNr(btree_id_to_gc_phase(l)) - PhaseNr(btree_id_to_gc_phase(r))

\* a slip: the ids are left in id order
bubble_sort_none(ids) == ids

\* bubble_sort(ids, BTREE_ID_NR, btree_id_gc_phase_cmp)
bubble_sort(ids) ==
    CHOOSE s \in [1..Len(ids) -> {ids[i] : i \in 1..Len(ids)}] :
        /\ \A i, j \in 1..Len(ids) : i # j => s[i] # s[j]
        /\ \A i, j \in 1..Len(ids) : i < j => btree_id_gc_phase_cmp(s[i], s[j]) <= 0

\* gc_pos_set: BUG_ON(gc_pos_cmp(new_pos, c->gc_pos) <= 0), then the assignment
gc_pos_set_bug(cur, new_pos) ==
    IF gc_pos_cmp(new_pos, cur) <= 0 THEN {"gc_pos_set"} ELSE {}

----------------------------------------------------------------------------
(* Marking.  The marking routines read and write a state st with the fields *)
(* buckets, usage, flags, journal_keys, nodes, fsck (errors reported),      *)
(* marked (keys marked, in order), set_alloc_write, eio (failed reads) and  *)
(* stripes.                                                                 *)
(* A routine is written as a chain of operators, one per stretch of the     *)
(* code, each taking the result of the stretch before it.                   *)

GcState ==
    [buckets |-> buckets, usage |-> usage, flags |-> flags,
     journal_keys |-> journal_keys, nodes |-> nodes, fsck |-> h_fsck,
     marked |-> h_marked, set_alloc_write |-> h_set_alloc_write, eio |-> 0,
     stripes |-> stripes, kmallocs |-> 0, nomem_at |-> 0, errs |-> h_err]

\* the state a routine starts from when its at-th kmalloc is the one to fail
\* (0: none fails)
GcStateAt(at) == [GcState EXCEPT !.nomem_at = at]

\* fsck_err / fsck_err_on with the repair allowed
fsck_err(st, msg, b) == [st EXCEPT !.fsck = @ \cup {[msg |-> msg, bucket |-> b]}]

set_bit(st, bit) ==
    [st EXCEPT !.flags = @ \cup {bit},
               !.set_alloc_write = @ \/ (bit = "BCH_FS_NEED_ALLOC_WRITE")]

\* kmalloc(..., GFP_KERNEL): the call is counted; it returns NULL when it is
\* the one chosen to fail
kmalloc_fails(st) == st.kmallocs + 1 = st.nomem_at
kmalloc(st) == [st EXCEPT !.kmallocs = @ + 1]

\* sectors a key's pointers stand for, and the data type they give a bucket
KeySectors(k) == IF k.type = "btree_ptr_v2" THEN Geometry.btree_node_size ELSE k.size
KeyDataType(k) == IF k.type = "btree_ptr_v2" THEN "btree" ELSE "user"

\* bch2_mark_pointer with BTREE_TRIGGER_GC: a pointer whose gen is not the
\* shadow bucket's gen marks nothing
bch2_mark_pointer(st, k, p) ==
    IF p.gen # st.buckets[1][p.bucket].gen THEN st
    ELSE IF p.cached
    THEN [st EXCEPT !.buckets[1][p.bucket].cached_sectors = @ + KeySectors(k),
                    !.buckets[1][p.bucket].data_type =
                        IF @ = "free" THEN "cached" ELSE @,
                    !.usage[1].cached = @ + KeySectors(k)]
    ELSE IF k.type = "btree_ptr_v2"
    THEN [st EXCEPT !.buckets[1][p.bucket].dirty_sectors = @ + KeySectors(k),
                    !.buckets[1][p.bucket].data_type = "btree",
                    !.usage[1].btree = @ + KeySectors(k)]
    ELSE [st EXCEPT !.buckets[1][p.bucket].dirty_sectors = @ + KeySectors(k),
                    !.buckets[1][p.bucket].data_type = "user",
                    !.usage[1].data = @ + KeySectors(k)]

RECURSIVE bch2_mark_ptrs(_, _, _)
bch2_mark_ptrs(st, k, ptrs) ==
    IF ptrs = <<>> THEN st
    ELSE bch2_mark_ptrs(bch2_mark_pointer(st, k, Head(ptrs)), k, Tail(ptrs))

\* bch2_mark_key(c, k, 0, k.k->size, NULL, 0, BTREE_TRIGGER_GC)
bch2_mark_key(st, k) == bch2_mark_ptrs(st, k, k.ptrs)

\* bch2_mark_metadata_bucket with BTREE_TRIGGER_GC
bch2_mark_metadata_bucket(st, b, type, sectors) ==
    [st EXCEPT !.buckets[1][b].data_type = type,
               !.buckets[1][b].dirty_sectors = @ + sectors,
               !.usage[1].hidden = @ + sectors]

\* bch2_mark_alloc_bucket(c, ca, b, true, pos, BTREE_TRIGGER_GC)
bch2_mark_alloc_bucket(st, b) ==
    [st EXCEPT !.buckets[1][b].owned_by_allocator = TRUE]

\* g2->_mark.gen = g->_mark.gen = p.ptr.gen; g2->gen_valid = g->gen_valid = true
check_fix_adopt_gen(st, p) ==
    [st EXCEPT !.buckets[0][p.bucket].gen = p.gen,
               !.buckets[1][p.bucket].gen = p.gen,
               !.buckets[0][p.bucket].gen_valid = TRUE,
               !.buckets[1][p.bucket].gen_valid = TRUE]

\* a slip: the live bucket keeps its data_type and sector counts
check_fix_clear_live_not(st, p) == st

\* g2's data_type, dirty_sectors and cached_sectors are cleared
check_fix_clear_live(st, p) ==
    [st EXCEPT !.buckets[0][p.bucket].data_type = "free",
               !.buckets[0][p.bucket].dirty_sectors = 0,
               !.buckets[0][p.bucket].cached_sectors = 0]

\* The pointer loop of bch2_check_fix_ptrs works on s = [st, do_update].
\* First test: the bucket has no gen in the alloc btree
check_fix_gen_valid(s, p) ==
    IF s.st.buckets[1][p.bucket].gen_valid THEN s
    ELSE IF p.cached
    THEN [s EXCEPT !.st = set_bit(
              check_fix_adopt_gen(fsck_err(@, "missing in alloc btree", p.bucket), p),
              "BCH_FS_NEED_ALLOC_WRITE")]
    ELSE [st |-> fsck_err(s.st, "missing in alloc btree", p.bucket), do_update |-> TRUE]

\* second test: the pointer's gen is ahead of the bucket's
check_fix_gen_future(s, p) ==
    IF gen_cmp(p.gen, s.st.buckets[1][p.bucket].gen) <= 0 THEN s
    ELSE IF p.cached
    THEN [s EXCEPT !.st = set_bit(set_bit(
              check_fix_clear_live(
                  check_fix_adopt_gen(fsck_err(@, "ptr gen in the future", p.bucket), p), p),
              "BCH_FS_NEED_ANOTHER_GC"), "BCH_FS_NEED_ALLOC_WRITE")]
    ELSE [st |-> fsck_err(s.st, "ptr gen in the future", p.bucket), do_update |-> TRUE]

\* third test: a dirty pointer is behind its bucket
check_fix_stale_dirty(s, p) ==
    IF ~p.cached /\ gen_cmp(p.gen, s.st.buckets[1][p.bucket].gen) < 0
    THEN [st |-> fsck_err(s.st, "stale dirty ptr", p.bucket), do_update |-> TRUE]
    ELSE s

\* one turn of the pointer loop
check_fix_ptr(s, p) ==
    check_fix_stale_dirty(check_fix_gen_future(check_fix_gen_valid(s, p), p), p)

RECURSIVE check_fix_ptrs_loop(_, _)
check_fix_ptrs_loop(s, ptrs) ==
    IF ptrs = <<>> THEN s
    ELSE check_fix_ptrs_loop(check_fix_ptr(s, Head(ptrs)), Tail(ptrs))

\* a slip: bch2_bkey_drop_ptrs drops nothing
check_fix_drop_ptr_none(st, ptr) == FALSE

\* the predicate of bch2_bkey_drop_ptrs
check_fix_drop_ptr(st, ptr) ==
    \/ ptr.cached /\ (\/ ~st.buckets[1][ptr.bucket].gen_valid
                      \/ gen_cmp(ptr.gen, st.buckets[1][ptr.bucket].gen) > 0)
    \/ ~ptr.cached /\ gen_cmp(ptr.gen, st.buckets[1][ptr.bucket].gen) < 0

\* the key is reassembled without the pointers the predicate names, and put
\* into the overlay
check_fix_insert(st, btree_id, level, new) ==
    [st |-> [st EXCEPT !.journal_keys = bch2_journal_key_insert(@, btree_id, level, new)],
     k |-> new, ret |-> "0"]

\* a slip: the key of a root is rewritten like any other
check_fix_update_roots_too(s, btree_id, level, is_root, k) ==
    IF ~s.do_update THEN [st |-> s.st, k |-> k, ret |-> "0"]
    ELSE check_fix_insert(s.st, btree_id, level,
             [k EXCEPT !.ptrs = SelectSeq(@, LAMBDA ptr : ~check_fix_drop_ptr(s.st, ptr))])

\* if (do_update) ...: s is what the pointer loop left
check_fix_update(s, btree_id, level, is_root, k) ==
    IF ~s.do_update THEN [st |-> s.st, k |-> k, ret |-> "0"]
    ELSE IF is_root THEN [st |-> s.st, k |-> k, ret |-> "-EINVAL"]
    ELSE IF kmalloc_fails(s.st) THEN [st |-> kmalloc(s.st), k |-> k, ret |-> "-ENOMEM"]
    ELSE check_fix_insert(kmalloc(s.st), btree_id, level,
             [k EXCEPT !.ptrs = SelectSeq(@, LAMBDA ptr : ~check_fix_drop_ptr(s.st, ptr))])

\* bch2_check_fix_ptrs: [st, k, ret], k the key the caller goes on with
bch2_check_fix_ptrs(st, btree_id, level, is_root, k) ==
    check_fix_update(check_fix_ptrs_loop([st |-> st, do_update |-> FALSE], k.ptrs),
                     btree_id, level, is_root, k)

\* the pointer loop of bch2_gc_mark_key on the shadow array
RECURSIVE mark_key_oldest_gen(_, _)
mark_key_oldest_gen(arr, ptrs) ==
    IF ptrs = <<>> THEN arr
    ELSE mark_key_oldest_gen(
             IF gen_after(arr[Head(ptrs).bucket].oldest_gen, Head(ptrs).gen) > 0
             THEN [arr EXCEPT ![Head(ptrs).bucket].oldest_gen = Head(ptrs).gen]
             ELSE arr,
             Tail(ptrs))

\* ptrs = bch2_bkey_ptrs_c(k) is taken on entry, before the repair
mark_key_ptrs(k, fixed) == k.ptrs

\* what a key is known by while repairs may move it: its btree and level and,
\* for a key of a node, that node, for any other key its position
KeyId(btree_id, level, is_root, k) ==
    [btree_id |-> btree_id, level |-> level, is_root |-> is_root,
     child |-> k.child, pos |-> IF k.child # 0 THEN POS_MIN ELSE k.p]

\* bch2_gc_mark_key after the repair r = [st, k, ret]: the pointer loop, then
\* bch2_mark_key on the key as repaired
gc_mark_key_mark(r, k, id) ==
    [st |-> [bch2_mark_key(
                 [r.st EXCEPT !.buckets[1] = mark_key_oldest_gen(@, mark_key_ptrs(k, r.k))],
                 r.k)
             EXCEPT !.marked = Append(@, [id |-> id, ptrs |-> r.k.ptrs]),
                    !.errs = IF r.ret = "0" THEN @
                             ELSE Append(@, [e |-> r.ret,
                                             nmarked |-> Len(r.st.marked) + 1])],
     ret |-> r.ret]

\* bch2_gc_mark_key: [st, ret]
bch2_gc_mark_key(st, btree_id, level, is_root, k, initial) ==
    gc_mark_key_mark(IF initial
                     THEN bch2_check_fix_ptrs(st, btree_id, level, is_root, k)
                     ELSE [st |-> st, k |-> k, ret |-> "0"],
                     k, KeyId(btree_id, level, is_root, k))

----------------------------------------------------------------------------
(* Walking the btrees                                                       *)

bch2_expensive_debug_checks == FALSE
bch2_test_restart_gc == FALSE

\* bkey_init(&prev.k->k): a deleted key
DeletedKey == [Dirent(POS_MIN) EXCEPT !.type = "deleted"]

bkey_successor(p) == p + 1

\* btree_node_type(b)
btree_node_type(b) == IF b.level > 0 THEN "btree" ELSE b.btree_id

\* bch2_gc_check_topology from if (update_min || update_max) on: new is cur
\* with the bounds set right
check_topology_update(st, b, cur, new, update_max) ==
    [st EXCEPT
       !.journal_keys =
           bch2_journal_key_insert(
               IF update_max
               THEN bch2_journal_key_delete(@, b.btree_id, b.level, cur.p)
               ELSE @,
               b.btree_id, b.level, new),
       !.nodes = IF cur.child = 0 THEN @
                 ELSE [@ EXCEPT ![cur.child].key = new,
                                ![cur.child].min_key = new.min_key,
                                ![cur.child].max_key = IF update_max THEN b.max_key ELSE @]]

\* bch2_gc_check_topology from if (update_min || update_max) on: [st, ret];
\* when kmalloc fails the deletion of an update_max has been made already
check_topology_alloc(st, b, cur, new, update_max) ==
    IF kmalloc_fails(st)
    THEN [st |-> [kmalloc(st) EXCEPT !.journal_keys =
                      IF update_max
                      THEN bch2_journal_key_delete(@, b.btree_id, b.level, cur.p)
                      ELSE @],
          ret |-> "-ENOMEM"]
    ELSE [st |-> check_topology_update(kmalloc(st), b, cur, new, update_max),
          ret |-> "0"]

\* the two tests of bch2_gc_check_topology
check_topology_tests(st, b, cur, update_min, update_max, expected_start) ==
    IF ~update_min /\ ~update_max THEN [st |-> st, ret |-> "0"]
    ELSE check_topology_alloc(
             IF update_min /\ update_max
             THEN fsck_err(fsck_err(st, "incorrect min_key", ""), "incorrect max_key", "")
             ELSE IF update_min THEN fsck_err(st, "incorrect min_key", "")
             ELSE fsck_err(st, "incorrect max_key", ""),
             b, cur,
             [cur EXCEPT !.min_key = IF update_min THEN expected_start ELSE @,
                         !.p = IF update_max THEN b.max_key ELSE @],
             update_max)

\* a slip: every child is expected to start where the node starts
check_topology_start_node(b, prev) == b.min_key

check_topology_start(b, prev) ==
    IF prev.type = "deleted" THEN b.min_key ELSE bkey_successor(prev.p)

\* bch2_gc_check_topology on node n with the keys prev and cur: [st, ret]
bch2_gc_check_topology(st, n, prev, cur, is_last) ==
    check_topology_tests(st, st.nodes[n], cur,
        cur.type = "btree_ptr_v2"
            /\ check_topology_start(st.nodes[n], prev) # cur.min_key,
        is_last /\ cur.p # st.nodes[n].max_key,
        check_topology_start(st.nodes[n], prev))

\* The while loop of btree_gc_mark_node (initial = FALSE) and the first while
\* loop of bch2_gc_btree_init_recurse (initial = TRUE) over the keys ks that
\* are left: the key is marked, then past a leaf the topology is checked.
RECURSIVE mark_node_loop(_, _, _, _, _)
RECURSIVE mark_node_marked(_, _, _, _, _, _)
RECURSIVE mark_node_checked(_, _, _, _)
mark_node_checked(t, n, ks, initial) ==
    IF t.ret # "0" THEN t
    ELSE mark_node_loop(t.st, n, Tail(ks), Head(ks), initial)
mark_node_marked(m, n, level, ks, prev, initial) ==
    IF m.ret # "0" THEN m
    ELSE IF level > 0
    THEN mark_node_checked(
             bch2_gc_check_topology(m.st, n, prev, Head(ks), Tail(ks) = <<>>),
             n, ks, initial)
    ELSE mark_node_loop(m.st, n, Tail(ks), prev, initial)
mark_node_loop(st, n, ks, prev, initial) ==
    IF ks = <<>> THEN [st |-> st, ret |-> "0"]
    ELSE mark_node_marked(
             bch2_gc_mark_key(st, st.nodes[n].btree_id, st.nodes[n].level, FALSE,
                              Head(ks), initial),
             n, st.nodes[n].level, ks, prev, initial)

\* btree_gc_mark_node: [st, ret]
btree_gc_mark_node(st, n) ==
    IF ~btree_node_type_needs_gc(btree_node_type(st.nodes[n]))
    THEN [st |-> st, ret |-> "0"]
    ELSE mark_node_loop(st, n, btree_and_journal_iter(st.nodes[n], st.journal_keys),
                        DeletedKey, FALSE)

\* a slip: every btree is walked from its interior nodes up
gc_depth_interior(btree_id) == 1

\* depth of bch2_gc_btree, target_depth of bch2_gc_btree_init
gc_depth(btree_id) ==
    IF bch2_expensive_debug_checks THEN 0
    ELSE IF ~btree_node_type_needs_gc(btree_id) THEN 1
    ELSE 0

\* __for_each_btree_node from POS_MIN down to depth: the nodes below n at
\* level >= depth, children before their parent, in key order
RECURSIVE for_each_btree_node(_, _, _, _)
RECURSIVE for_each_btree_node_of(_, _, _, _)
for_each_btree_node_of(ns, jk, ks, depth) ==
    IF ks = <<>> THEN <<>>
    ELSE for_each_btree_node(ns, jk, Head(ks).child, depth)
         \o for_each_btree_node_of(ns, jk, Tail(ks), depth)
for_each_btree_node(ns, jk, n, depth) ==
    IF ns[n].level < depth THEN <<>>
    ELSE (IF ns[n].level > 0
          THEN for_each_btree_node_of(ns, jk, btree_and_journal_iter(ns[n], jk), depth)
          ELSE <<>>) \o <<n>>

\* a slip: the key of the unreadable child stays
init_recurse_unreadable_kept(st, b, cur) ==
    set_bit([fsck_err(st, "unreadable btree node", "") EXCEPT !.eio = @ + 1],
            "BCH_FS_NEED_ANOTHER_GC")

\* the unreadable child under key cur of node b: its key is deleted in the
\* overlay and another pass asked for
init_recurse_unreadable(st, b, cur) ==
    set_bit([fsck_err(st, "unreadable btree node", "")
             EXCEPT !.journal_keys = bch2_journal_key_delete(@, b.btree_id, b.level, cur.p),
                    !.eio = @ + 1],
            "BCH_FS_NEED_ANOTHER_GC")

\* bch2_gc_btree_init_recurse on node n; reads of the nodes in eio fail with
\* -EIO: [st, ret].  The second loop, over the children, runs whatever the
\* first left in ret.
RECURSIVE bch2_gc_btree_init_recurse(_, _, _, _)
RECURSIVE init_recurse_child_loop(_, _, _, _, _, _)
RECURSIVE init_recurse_child_done(_, _, _, _, _)
RECURSIVE init_recurse_children(_, _, _, _)
init_recurse_child_done(r, n, ks, target_depth, eio) ==
    IF r.ret # "0" THEN r
    ELSE init_recurse_child_loop(r.st, n, Tail(ks), target_depth, eio, "0")
init_recurse_child_loop(st, n, ks, target_depth, eio, ret) ==
    IF ks = <<>> THEN [st |-> st, ret |-> ret]
    ELSE IF Head(ks).child \in eio
    THEN init_recurse_child_loop(init_recurse_unreadable(st, st.nodes[n], Head(ks)),
                                 n, Tail(ks), target_depth, eio, "0")
    ELSE init_recurse_child_done(
             bch2_gc_btree_init_recurse(st, Head(ks).child, target_depth, eio),
             n, ks, target_depth, eio)
init_recurse_children(m, n, target_depth, eio) ==
    IF m.st.nodes[n].level > target_depth
    THEN init_recurse_child_loop(m.st, n,
             btree_and_journal_iter(m.st.nodes[n], m.st.journal_keys),
             target_depth, eio, m.ret)
    ELSE m
bch2_gc_btree_init_recurse(st, n, target_depth, eio) ==
    init_recurse_children(
        mark_node_loop(st, n, btree_and_journal_iter(st.nodes[n], st.journal_keys),
                       DeletedKey, TRUE),
        n, target_depth, eio)

\* bch2_gc_btree_init after the recursion r: the root's key
btree_init_root(r, btree_id, b) ==
    IF r.ret # "0" THEN r
    ELSE bch2_gc_mark_key(r.st, btree_id, b.level, TRUE, b.key, TRUE)

\* bch2_gc_btree_init: [st, ret]
bch2_gc_btree_init(st, btree_id, eio) ==
    IF st.nodes[btree_roots(btree_id)].fake THEN [st |-> st, ret |-> "0"]
    ELSE btree_init_root(
             IF st.nodes[btree_roots(btree_id)].level >= gc_depth(btree_id)
             THEN bch2_gc_btree_init_recurse(st, btree_roots(btree_id),
                                             gc_depth(btree_id), eio)
             ELSE [st |-> st, ret |-> "0"],
             btree_id, st.nodes[btree_roots(btree_id)])

----------------------------------------------------------------------------
(* Reconciliation and the state bch2_gc starts from                         *)

ZeroGcBuckets == [b \in GcBuckets |-> ZeroBucket]

\* struct bch_fs_usage: the summed counters
ZeroUsage == [hidden |-> 0, btree |-> 0, data |-> 0, cached |-> 0]
UsageFields == {"hidden", "btree", "data", "cached"}

\* the fields copy_bucket_field copies
BucketFields ==
    {"gen", "data_type", "owned_by_allocator", "stripe", "dirty_sectors",
     "cached_sectors"}

\* struct stripe, the fields bch2_gc_done reads; a slot the radix tree has
\* just allocated is zeroed
ZeroStripe ==
    [alive |-> FALSE, sectors |-> 0, algorithm |-> 0, nr_blocks |-> 0,
     nr_redundant |-> 0, block_sectors |-> <<0, 0>>, blocks_nonempty |-> 0]

\* the fields whose mismatch bch2_gc_done does not repair
StripeShape == {"alive", "sectors", "algorithm", "nr_blocks", "nr_redundant"}

\* genradix_ptr_alloc(&c->stripes[0], pos, GFP_KERNEL): the slot is there
\* afterwards, zeroed if it was not there before
genradix_ptr_alloc(s, pos) ==
    IF pos <= Len(s) THEN s
    ELSE s \o [j \in 1..(pos - Len(s)) |-> ZeroStripe]

\* a slip: a stripe that differs in shape is reconciled like any other
gc_done_stripe_confused_never(dst, src) == FALSE

\* the test of lines 810-814
gc_done_stripe_confused(dst, src) == \E f \in StripeShape : dst[f] # src[f]

\* copy_stripe_field(block_sectors[i]) for every i, then blocks_nonempty is
\* counted anew
gc_done_stripe(st, pos, verify) ==
    LET src == st.stripes[1][pos]
        dst == st.stripes[0][pos]
        st1 == [st EXCEPT
                  !.stripes[0][pos].block_sectors = src.block_sectors,
                  !.stripes[0][pos].blocks_nonempty =
                      Cardinality({i \in 1..dst.nr_blocks : src.block_sectors[i] # 0}),
                  !.fsck = IF verify /\ dst.block_sectors # src.block_sectors
                           THEN @ \cup {[msg |-> "block_sectors", bucket |-> "stripe"]}
                           ELSE @]
    IN  IF dst.block_sectors # src.block_sectors
        THEN set_bit(st1, "BCH_FS_NEED_ALLOC_WRITE")
        ELSE st1

\* the stripe loop of bch2_gc_done from slot pos of c->stripes[1] on: [st, ret]
RECURSIVE gc_done_stripes(_, _, _)
RECURSIVE gc_done_stripe_checked(_, _, _)
gc_done_stripe_checked(st, pos, verify) ==
    IF gc_done_stripe_confused(st.stripes[0][pos], st.stripes[1][pos])
    THEN [st |-> st, ret |-> "-EINVAL"]
    ELSE gc_done_stripes(gc_done_stripe(st, pos, verify), pos + 1, verify)
gc_done_stripes(st, pos, verify) ==
    IF pos > Len(st.stripes[1]) THEN [st |-> st, ret |-> "0"]
    ELSE gc_done_stripe_checked(
             [st EXCEPT !.stripes[0] = genradix_ptr_alloc(@, pos)], pos, verify)

\* a slip: oldest_gen is left as it is
gc_done_bucket_marks_only(dst, src) ==
    [f \in DOMAIN dst |-> IF f \in BucketFields THEN src[f] ELSE dst[f]]

\* the bucket loop of bch2_gc_done on one bucket
gc_done_bucket(dst, src) ==
    [f \in DOMAIN dst |->
        IF f \in BucketFields \cup {"oldest_gen"} THEN src[f] ELSE dst[f]]

\* the fields of bucket b for which copy_bucket_field finds a difference
gc_done_wrong(st, b) == {f \in BucketFields : st.buckets[0][b][f] # st.buckets[1][b][f]}

\* the loop over the buckets of every device
gc_done_buckets(st, verify) ==
    LET st1 == [st EXCEPT
                  !.buckets[0] =
                      [b \in GcBuckets |-> gc_done_bucket(@[b], st.buckets[1][b])],
                  !.fsck = IF verify
                           THEN @ \cup UNION {{[msg |-> f, bucket |-> b] :
                                                  f \in gc_done_wrong(st, b)} :
                                              b \in GcBuckets}
                           ELSE @]
    IN  IF \E b \in GcBuckets : gc_done_wrong(st, b) # {}
        THEN set_bit(st1, "BCH_FS_NEED_ALLOC_WRITE")
        ELSE st1

\* copy_dev_field and copy_fs_field over the usage counters
gc_done_usage(st, verify) ==
    LET wrongu == {f \in UsageFields : st.usage[0][f] # st.usage[1][f]}
        st1    == [st EXCEPT
                     !.usage[0] = [f \in DOMAIN @ |->
                                      IF f \in UsageFields THEN st.usage[1][f] ELSE @[f]],
                     !.fsck = IF verify
                              THEN @ \cup {[msg |-> f, bucket |-> "fs"] : f \in wrongu}
                              ELSE @]
    IN  IF wrongu # {} THEN set_bit(st1, "BCH_FS_NEED_ALLOC_WRITE") ELSE st1

\* bool verify of bch2_gc_done
gc_done_verify(initial) == ~initial \/ compat_alloc_info

\* bch2_gc_done after the stripe loop r = [st, ret]
gc_done_rest(r, verify) ==
    IF r.ret # "0" THEN r
    ELSE [st |-> gc_done_usage(gc_done_buckets(r.st, verify), verify), ret |-> "0"]

\* bch2_gc_done: [st, ret]
bch2_gc_done(st, initial) ==
    gc_done_rest(gc_done_stripes(st, 1, gc_done_verify(initial)), gc_done_verify(initial))

\* the sum of a function with a finite domain
RECURSIVE FnSum(_)
FnSum(f) ==
    IF DOMAIN f = {} THEN 0
    ELSE LET x == CHOOSE x \in DOMAIN f : TRUE
         IN  f[x] + FnSum([y \in DOMAIN f \ {x} |-> f[y]])

\* the nodes under n, n included, read through the overlay
RECURSIVE NodesBelow(_, _, _)
NodesBelow(ns, jk, n) ==
    {n} \cup (IF ns[n].level = 0 THEN {}
              ELSE LET ks == btree_and_journal_iter(ns[n], jk)
                   IN  UNION {NodesBelow(ns, jk, ks[j].child) : j \in 1..Len(ks)})

\* every key of the filesystem, with its identity: the key of each root that
\* is not fake, and the keys of every node
AllKeys(ns, jk) ==
    {[id |-> KeyId(id, ns[btree_roots(id)].level, TRUE, ns[btree_roots(id)].key),
      k |-> ns[btree_roots(id)].key] : id \in {i \in BtreeIds : ~ns[btree_roots(i)].fake}}
    \cup UNION {UNION {LET ks == btree_and_journal_iter(ns[n], jk)
                       IN  {[id |-> KeyId(id, ns[n].level, FALSE, ks[j]), k |-> ks[j]] :
                               j \in 1..Len(ks)} :
                       n \in NodesBelow(ns, jk, btree_roots(id))} : id \in BtreeIds}

\* the sectors key k puts into bucket b through pointers of generation gen
PtrSectors(k, b, gen, cached) ==
    KeySectors(k) * Cardinality({i \in 1..Len(k.ptrs) :
        k.ptrs[i].bucket = b /\ k.ptrs[i].gen = gen /\ k.ptrs[i].cached = cached})

KeysSectors(AK, b, gen, cached) == FnSum([e \in AK |-> PtrSectors(e.k, b, gen, cached)])

\* the data type of the buckets of a sound filesystem
BucketType(b) ==
    CASE b = "sb" -> "sb"
      [] b = "journal" -> "journal"
      [] b \in {"bt1", "bt2"} -> "btree"
      [] b = "u1" -> "user"
      [] b = "u2" -> "cached"
      [] OTHER -> "free"

\* the live bucket array: that of the sound filesystem, with the bucket
\* faults of F; valid is the set of open-bucket slots in use
InitLiveBucket(F, valid, b) ==
    LET AK == AllKeys(Forest({}), {})
        off == IF \E f \in F : f.kind = "sectors" /\ f.bucket = b THEN 1 ELSE 0
    IN  [ZeroBucket EXCEPT
           !.gen = GcInitGen(b),
           !.gen_valid = ~\E f \in F : f.kind = "gen_invalid" /\ f.bucket = b,
           !.data_type = BucketType(b),
           !.owned_by_allocator =
               b = "free_inc" \/ \E s \in valid : OpenBucketOf(s) = b,
           !.dirty_sectors =
               off + (IF b = "sb" THEN Geometry.sb_sectors
                      ELSE IF b = "journal" THEN Geometry.bucket_size
                      ELSE KeysSectors(AK, b, GcInitGen(b), FALSE)),
           !.cached_sectors = KeysSectors(AK, b, GcInitGen(b), TRUE),
           !.oldest_gen =
               GcInitGen(b) - (IF \E f \in F : f.kind = "oldest_gen" /\ f.bucket = b
                               THEN 1 ELSE 0),
           !.gc_gen = GcInitGen(b)]

InitUsage ==
    LET AK == AllKeys(Forest({}), {})
    IN  [hidden |-> Geometry.sb_sectors + Geometry.bucket_size,
         btree  |-> FnSum([b \in {"bt1", "bt2"} |-> KeysSectors(AK, b, GcInitGen(b), FALSE)]),
         data   |-> FnSum([b \in {"u1", "u2"} |-> KeysSectors(AK, b, GcInitGen(b), FALSE)]),
         cached |-> FnSum([b \in {"u1", "u2"} |-> KeysSectors(AK, b, GcInitGen(b), TRUE)])]

----------------------------------------------------------------------------
(* bch2_gc, step by step                                                    *)

\* what the marking routines write
stVars == <<buckets, usage, flags, journal_keys, nodes, h_fsck, h_marked, h_err,
            h_set_alloc_write>>

ApplySt(st) ==
    /\ buckets' = st.buckets
    /\ usage' = st.usage
    /\ flags' = st.flags
    /\ journal_keys' = st.journal_keys
    /\ nodes' = st.nodes
    /\ h_fsck' = st.fsck
    /\ h_marked' = st.marked
    /\ h_err' = st.errs
    /\ h_set_alloc_write' = st.set_alloc_write

\* the allocations of bch2_gc_start, in order
AllocOrder == <<"usage_gc", "buckets", "dev_usage_gc", "stripes">>

\* the copying loop of bch2_gc_start on one bucket of the zeroed shadow array
gc_start_bucket(s) ==
    [ZeroBucket EXCEPT !.gen = s.gen, !.oldest_gen = s.gen, !.gen_valid = s.gen_valid]

\* struct bucket_array: first_bucket and nbuckets of the live array, and of a
\* shadow array that is not there or was just allocated zeroed
LiveDims == [first_bucket |-> 1, nbuckets |-> Cardinality(GcBuckets)]
ZeroDims == [first_bucket |-> 0, nbuckets |-> 0]

\* a slip: c->usage_gc is left allocated
GcFreeBucketsOnly ==
    /\ gc_alloc' = gc_alloc \cap {"usage_gc"}
    /\ buckets' = [buckets EXCEPT ![1] = ZeroGcBuckets]
    /\ usage' = usage
    /\ gc_dims' = ZeroDims

\* bch2_gc_free
GcFree ==
    /\ gc_alloc' = {}
    /\ buckets' = [buckets EXCEPT ![1] = ZeroGcBuckets]
    /\ usage' = [usage EXCEPT ![1] = ZeroUsage]
    /\ gc_dims' = ZeroDims

\* bch2_gc up to the label again: down_write(&c->gc_lock)
GcCall ==
    /\ gc_pc = "idle"
    /\ run \in {"first", "second"}
    /\ \E initial \in BOOLEAN : gc_initial' = initial
    /\ gc_iter' = 0
    /\ gc_ret' = "0"
    /\ gc_held' = {"gc_lock"}
    /\ gc_pc' = "start"
    /\ h_passes' = 0
    /\ h_fsck' = {}
    /\ h_set_alloc_write' = FALSE
    /\ h_marked' = <<>>
    /\ h_err' = <<>>
    /\ h_woken' = {}
    /\ UNCHANGED <<buckets, usage, flags, journal_keys, nodes, gc_count, open_buckets,
                   compat_alloc_info, gc_pos, gc_alloc, gc_i, gc_walk, gc_ob, eio_left,
                   run, h_bug, h_first, gensVars, mut_left, nomem_left, gc_dims,
                   otherVars>>

\* bch2_gc_start; an allocation may fail
GcStart ==
    /\ gc_pc = "start"
    /\ \E fail \in 1..(Len(AllocOrder) + 1) :
         /\ gc_alloc' = {AllocOrder[i] : i \in 1..(fail - 1)}
         /\ IF fail > Len(AllocOrder)
            THEN /\ h_bug' = h_bug \cup (IF gc_alloc # {} THEN {"gc_start"} ELSE {})
                               \cup gc_pos_set_bug(gc_pos, gc_phase("START"))
                 /\ gc_pos' = gc_phase("START")
                 /\ buckets' = [buckets EXCEPT ![1] =
                                  [b \in GcBuckets |-> gc_start_bucket(buckets[0][b])]]
                 /\ usage' = [usage EXCEPT ![1] = ZeroUsage]
                 /\ gc_dims' = LiveDims
                 /\ gc_pc' = "sb"
                 /\ h_passes' = h_passes + 1
                 /\ h_marked' = <<>>
                 /\ h_err' = <<>>
                 /\ UNCHANGED gc_ret
            ELSE /\ h_bug' = h_bug \cup (IF gc_alloc # {} THEN {"gc_start"} ELSE {})
                 /\ gc_ret' = "-ENOMEM"
                 /\ gc_pc' = "out"
                 /\ UNCHANGED <<gc_pos, buckets, usage, gc_dims, h_passes, h_marked, h_err>>
    /\ UNCHANGED <<flags, journal_keys, nodes, gc_count, open_buckets, compat_alloc_info,
                   gc_held, gc_initial, gc_iter, gc_i, gc_walk, gc_ob, eio_left, run,
                   h_fsck, h_set_alloc_write, h_first, gensVars, mut_left, nomem_left,
                   h_woken, otherVars>>

\* bch2_mark_superblocks
GcMarkSuperblocks ==
    /\ gc_pc = "sb"
    /\ h_bug' = h_bug \cup gc_pos_set_bug(gc_pos, gc_phase("SB"))
    /\ gc_pos' = gc_phase("SB")
    /\ ApplySt(bch2_mark_metadata_bucket(
                   bch2_mark_metadata_bucket(GcState, "sb", "sb", Geometry.sb_sectors),
                   "journal", "journal", Geometry.bucket_size))
    /\ gc_pc' = "btrees"
    /\ gc_i' = 1
    /\ UNCHANGED <<gc_count, open_buckets, compat_alloc_info, gc_alloc, gc_held,
                   gc_initial, gc_iter, gc_ret, gc_walk, gc_ob, eio_left, run,
                   h_passes, h_first, gensVars, mut_left, auxVars, otherVars>>

InBtrees == gc_pc = "btrees" /\ gc_i <= Len(btree_ids)

\* the nodes of btree id other than its root
ChildNodes(id) == {n \in NodeIds : nodes[n].btree_id = id /\ n # btree_roots(id)}

\* the most kmalloc calls of one walk among which one is chosen to fail
MaxKmallocs == 2

\* which kmalloc of the routine about to run fails: none, or one of the
\* first MaxKmallocs while failures are left
NoMemChoices == IF nomem_left > 0 THEN 0..MaxKmallocs ELSE {0}

\* st is what the routine left when its at-th kmalloc was to fail: the call
\* was made
GcNoMem(st, at) ==
    /\ at = 0 \/ st.kmallocs >= at
    /\ nomem_left' = nomem_left - (IF at = 0 THEN 0 ELSE 1)

\* what bch2_gc_btrees does with r = [st, ret] of bch2_gc_btree_init
GcBtreeInitRet(r) ==
    /\ ApplySt(r.st)
    /\ eio_left' = eio_left - r.st.eio
    /\ IF r.ret # "0"
       THEN gc_ret' = r.ret /\ gc_pc' = "out" /\ UNCHANGED gc_i
       ELSE gc_i' = gc_i + 1 /\ UNCHANGED <<gc_ret, gc_pc>>

\* bch2_gc_btrees, initial: bch2_gc_btree_init on the next btree; eio is the
\* set of nodes whose read fails during it
GcBtreeInit ==
    /\ InBtrees
    /\ gc_initial
    /\ \E eio \in SUBSET ChildNodes(bubble_sort(btree_ids)[gc_i]), at \in NoMemChoices :
         /\ Cardinality(eio) <= eio_left
         /\ bch2_gc_btree_init(GcStateAt(at), bubble_sort(btree_ids)[gc_i], eio).st.eio
                = Cardinality(eio)
         /\ GcNoMem(bch2_gc_btree_init(GcStateAt(at), bubble_sort(btree_ids)[gc_i],
                                       eio).st, at)
         /\ GcBtreeInitRet(bch2_gc_btree_init(GcStateAt(at), bubble_sort(btree_ids)[gc_i],
                                              eio))
    /\ UNCHANGED <<gc_count, open_buckets, compat_alloc_info, gc_pos, gc_alloc, gc_held,
                   gc_initial, gc_iter, gc_walk, gc_ob, run, h_bug, h_passes, h_first,
                   gensVars, mut_left, h_woken, gc_dims, otherVars>>

\* bch2_gc_btree up to the node loop
GcBtreeStart ==
    /\ InBtrees
    /\ ~gc_initial
    /\ LET id == bubble_sort(btree_ids)[gc_i]
           new_pos == gc_pos_btree(id, POS_MIN, 0)
       IN  /\ h_bug' = h_bug \cup gc_pos_set_bug(gc_pos, new_pos)
           /\ gc_pos' = new_pos
           /\ gc_walk' = for_each_btree_node(nodes, journal_keys, btree_roots(id),
                                             gc_depth(id))
    /\ gc_pc' = "walk"
    /\ UNCHANGED <<stVars, gc_count, open_buckets, compat_alloc_info, gc_alloc, gc_held,
                   gc_initial, gc_iter, gc_ret, gc_i, gc_ob, eio_left, run, h_passes,
                   h_first, gensVars, mut_left, auxVars, otherVars>>

\* gc_pos_set(c, new_pos)
GcPosSet(new_pos) ==
    /\ h_bug' = h_bug \cup gc_pos_set_bug(gc_pos, new_pos)
    /\ gc_pos' = new_pos

\* what the node loop does with r = [st, ret] of btree_gc_mark_node
GcBtreeNodeRet(r) ==
    /\ ApplySt(r.st)
    /\ IF r.ret # "0"
       THEN gc_ret' = r.ret /\ gc_pc' = "out" /\ UNCHANGED gc_walk
       ELSE gc_walk' = Tail(gc_walk) /\ UNCHANGED <<gc_ret, gc_pc>>

\* one turn of the node loop of bch2_gc_btree
GcBtreeNode ==
    /\ gc_pc = "walk"
    /\ gc_walk # <<>>
    /\ GcPosSet(gc_pos_btree_node(nodes[Head(gc_walk)]))
    /\ \E at \in NoMemChoices :
         /\ GcNoMem(btree_gc_mark_node(GcStateAt(at), Head(gc_walk)).st, at)
         /\ GcBtreeNodeRet(btree_gc_mark_node(GcStateAt(at), Head(gc_walk)))
    /\ UNCHANGED <<gc_count, open_buckets, compat_alloc_info, gc_alloc, gc_held,
                   gc_initial, gc_iter, gc_i, gc_ob, eio_left, run, h_passes, h_first,
                   gensVars, mut_left, h_woken, gc_dims, otherVars>>

\* what bch2_gc_btree returns to bch2_gc_btrees, r = [st, ret] of the root's key
GcBtreeRootRet(r) ==
    /\ ApplySt(r.st)
    /\ IF r.ret # "0"
       THEN gc_ret' = r.ret /\ gc_pc' = "out" /\ UNCHANGED gc_i
       ELSE gc_i' = gc_i + 1 /\ gc_pc' = "btrees" /\ UNCHANGED gc_ret

\* bch2_gc_btree after the node loop: the root's key, then the root position
GcBtreeRoot ==
    /\ gc_pc = "walk"
    /\ gc_walk = <<>>
    /\ GcPosSet(gc_pos_btree_root(bubble_sort(btree_ids)[gc_i]))
    /\ GcBtreeRootRet(
           IF nodes[btree_roots(bubble_sort(btree_ids)[gc_i])].fake
           THEN [st |-> GcState, ret |-> "0"]
           ELSE bch2_gc_mark_key(GcState, bubble_sort(btree_ids)[gc_i],
                                 nodes[btree_roots(bubble_sort(btree_ids)[gc_i])].level,
                                 TRUE,
                                 nodes[btree_roots(bubble_sort(btree_ids)[gc_i])].key,
                                 FALSE))
    /\ UNCHANGED <<gc_count, open_buckets, compat_alloc_info, gc_alloc, gc_held,
                   gc_initial, gc_iter, gc_walk, gc_ob, eio_left, run, h_passes,
                   h_first, gensVars, mut_left, auxVars, otherVars>>

\* bch2_mark_allocator_buckets up to the open-bucket loop
GcMarkAllocator ==
    /\ gc_pc = "btrees"
    /\ gc_i > Len(btree_ids)
    /\ h_bug' = h_bug \cup gc_pos_set_bug(gc_pos, gc_pos_alloc(0))
    /\ gc_pos' = gc_pos_alloc(0)
    /\ ApplySt(bch2_mark_alloc_bucket(GcState, "free_inc"))
    /\ gc_ob' = 0
    /\ gc_pc' = "open_buckets"
    /\ UNCHANGED <<gc_count, open_buckets, compat_alloc_info, gc_alloc, gc_held,
                   gc_initial, gc_iter, gc_ret, gc_i, gc_walk, eio_left, run,
                   h_passes, h_first, gensVars, mut_left, auxVars, otherVars>>

\* one turn of the open-bucket loop of bch2_mark_allocator_buckets
GcOpenBucket ==
    /\ gc_pc = "open_buckets"
    /\ gc_ob \in OpenBucketSlots
    /\ IF open_buckets[gc_ob].valid
       THEN /\ h_bug' = h_bug \cup gc_pos_set_bug(gc_pos, gc_pos_alloc(gc_ob))
            /\ gc_pos' = gc_pos_alloc(gc_ob)
            /\ ApplySt(bch2_mark_alloc_bucket(GcState, open_buckets[gc_ob].bucket))
       ELSE UNCHANGED <<h_bug, gc_pos, stVars>>
    /\ gc_ob' = gc_ob + 1
    /\ gc_pc' = IF gc_ob + 1 \in OpenBucketSlots THEN "open_buckets" ELSE "pass_end"
    /\ UNCHANGED <<gc_count, open_buckets, compat_alloc_info, gc_alloc, gc_held,
                   gc_initial, gc_iter, gc_ret, gc_i, gc_walk, eio_left, run,
                   h_passes, h_first, gensVars, mut_left, auxVars, otherVars>>

\* a slip: the test is iter++ <= 3
gc_may_restart_le3(iter) == iter <= 3

\* if (iter++ <= 2)
gc_may_restart(iter) == iter <= 2

\* a slip: the position stays where the pass left it
gc_restart_pos_kept(pos) == pos

\* __gc_pos_set(c, gc_phase(GC_PHASE_NOT_RUNNING)) of the restart, before
\* mark_lock is taken
gc_restart_pos(pos) == gc_phase("NOT_RUNNING")

\* c->gc_count++ and the decision to go round again
GcPassEnd ==
    /\ gc_pc = "pass_end"
    /\ gc_count' = gc_count + 1
    /\ IF "BCH_FS_NEED_ANOTHER_GC" \in flags \/ (gc_iter = 0 /\ bch2_test_restart_gc)
       THEN /\ gc_iter' = gc_iter + 1
            /\ IF gc_may_restart(gc_iter)
               THEN /\ flags' = flags \ {"BCH_FS_NEED_ANOTHER_GC"}
                    /\ gc_pos' = gc_restart_pos(gc_pos)
                    /\ gc_pc' = "restart_free"
                    /\ UNCHANGED <<gc_ret, gc_alloc, buckets, usage, gc_dims>>
               ELSE /\ gc_ret' = "-EINVAL"
                    /\ gc_pc' = "out"
                    /\ UNCHANGED <<flags, gc_pos, gc_alloc, buckets, usage, gc_dims>>
       ELSE /\ gc_pc' = "out"
            /\ UNCHANGED <<flags, gc_pos, gc_alloc, buckets, usage, gc_dims, gc_iter,
                           gc_ret>>
    /\ UNCHANGED <<journal_keys, nodes, open_buckets, compat_alloc_info, gc_held,
                   gc_initial, gc_i, gc_walk, gc_ob, eio_left, run, h_bug, h_passes,
                   h_marked, h_err, h_fsck, h_set_alloc_write, h_first, gensVars, mut_left,
                   nomem_left, h_woken, otherVars>>

\* the restart: bch2_gc_free under mark_lock, then goto again
GcRestartFree ==
    /\ gc_pc = "restart_free"
    /\ GcFree
    /\ gc_pc' = "start"
    /\ UNCHANGED <<flags, journal_keys, nodes, gc_count, open_buckets, compat_alloc_info,
                   gc_pos, gc_held, gc_initial, gc_iter, gc_ret, gc_i, gc_walk, gc_ob,
                   eio_left, run, h_bug, h_passes, h_marked, h_err, h_fsck, h_set_alloc_write,
                   h_first, gensVars, mut_left, nomem_left, h_woken, otherVars>>

\* the label out: the locks bch2_gc_done runs under
\* a slip: bch2_gc_done runs whatever ret is
gc_out_reconciles_always(ret) == TRUE

\* out: if (!ret)
gc_out_reconciles(ret) == ret = "0"

\* a slip: bch2_gc_done runs with the journal blocked and no mark_lock
gc_out_locks_journal_only(reconciles) ==
    IF reconciles THEN {"journal_block"} ELSE {"mark_lock"}

\* bch2_journal_block and percpu_down_write(&c->mark_lock) before
\* bch2_gc_done; percpu_down_write(&c->mark_lock) alone otherwise
gc_out_locks(reconciles) ==
    IF reconciles THEN {"journal_block", "mark_lock"} ELSE {"mark_lock"}

GcOut ==
    /\ gc_pc = "out"
    /\ gc_held' = gc_held \cup gc_out_locks(gc_out_reconciles(gc_ret))
    /\ gc_pc' = IF gc_out_reconciles(gc_ret) THEN "done" ELSE "finish"
    /\ UNCHANGED <<stVars, gc_count, open_buckets, compat_alloc_info, gc_pos, gc_alloc,
                   gc_initial, gc_iter, gc_ret, gc_i, gc_walk, gc_ob, eio_left, run,
                   h_bug, h_passes, h_first, gensVars, mut_left, auxVars, otherVars>>

\* what bch2_gc does with r = [st, ret] of the stripe loop of bch2_gc_done:
\* with an error bch2_gc_done is over and the journal is unblocked
GcDoneStripesRet(r) ==
    /\ ApplySt(r.st)
    /\ stripes' = r.st.stripes
    /\ gc_ret' = r.ret
    /\ IF r.ret # "0"
       THEN gc_held' = gc_held \ {"journal_block"} /\ gc_pc' = "finish"
       ELSE gc_pc' = "done_buckets" /\ UNCHANGED gc_held

\* ret = bch2_gc_done(c, initial): the stripe loop
GcDone ==
    /\ gc_pc = "done"
    /\ GcDoneStripesRet(gc_done_stripes(GcState, 1, gc_done_verify(gc_initial)))
    /\ UNCHANGED <<gc_count, open_buckets, compat_alloc_info, gc_pos, gc_alloc,
                   gc_initial, gc_iter, gc_i, gc_walk, gc_ob, eio_left, run,
                   h_bug, h_passes, h_first, gensVars, mut_left, auxVars, lockVars, co, th>>

\* bch2_gc_done: the loop over the buckets
GcDoneBuckets ==
    /\ gc_pc = "done_buckets"
    /\ ApplySt(gc_done_buckets(GcState, gc_done_verify(gc_initial)))
    /\ gc_pc' = "done_usage"
    /\ UNCHANGED <<gc_count, open_buckets, compat_alloc_info, gc_pos, gc_alloc, gc_held,
                   gc_initial, gc_iter, gc_ret, gc_i, gc_walk, gc_ob, eio_left, run,
                   h_bug, h_passes, h_first, gensVars, mut_left, auxVars, otherVars>>

\* bch2_gc_done: the usage counters; bch2_journal_unblock
GcDoneUsage ==
    /\ gc_pc = "done_usage"
    /\ ApplySt(gc_done_usage(GcState, gc_done_verify(gc_initial)))
    /\ gc_held' = gc_held \ {"journal_block"}
    /\ gc_pc' = "finish"
    /\ UNCHANGED <<gc_count, open_buckets, compat_alloc_info, gc_pos, gc_alloc,
                   gc_initial, gc_iter, gc_ret, gc_i, gc_walk, gc_ob, eio_left, run,
                   h_bug, h_passes, h_first, gensVars, mut_left, auxVars, otherVars>>

\* the rest of bch2_gc: the position is reset, the shadow state freed, the
\* locks dropped, the allocator of each device and c->freelist_wait woken
GcFinish ==
    /\ gc_pc = "finish"
    /\ gc_pos' = gc_phase("NOT_RUNNING")
    /\ GcFree
    /\ gc_held' = {}
    /\ h_woken' = {"allocator", "freelist_wait"}
    /\ gc_pc' = "idle"
    /\ run' = IF run = "first" THEN "second" ELSE "over"
    /\ h_first' = IF run = "first"
                  THEN [buckets |-> buckets[0], usage |-> usage[0], ret |-> gc_ret]
                  ELSE h_first
    /\ UNCHANGED <<flags, journal_keys, nodes, gc_count, open_buckets, compat_alloc_info,
                   gc_initial, gc_iter, gc_ret, gc_i, gc_walk, gc_ob, eio_left, h_bug,
                   h_passes, h_marked, h_err, h_fsck, h_set_alloc_write, gensVars, mut_left,
                   nomem_left, otherVars>>

(* Inputs of bch2_gc *)

\* the most faults the filesystem carries
MaxFaults == 1

\* the most node reads that fail
MaxEIO == 4

\* every pointer of the sound filesystem: <<node, key (0: the root's own), entry>>
PtrSites ==
    LET ns == Forest({})
    IN  {<<btree_roots(id), 0, 1>> : id \in {i \in BtreeIds : ~ns[btree_roots(i)].fake}}
        \cup UNION {UNION {{<<n, j, i>> : i \in 1..Len(ns[n].keys[j].ptrs)} :
                             j \in 1..Len(ns[n].keys)} : n \in NodeIds}

GcFaultChoices ==
    {Fault(kind, site[1], site[2], site[3], "") :
        kind \in {"stale", "future"}, site \in PtrSites}
    \cup {Fault("gen_invalid", 0, 0, 0, b) : b \in {"bt1", "bt2", "u1", "u2"}}
    \cup {Fault("sectors", 0, 0, 0, "u1")}
    \cup {Fault("oldest_gen", 0, 0, 0, "u1")}
    \cup {Fault(kind, site[1], site[2], 0, "") :
             kind \in {"min_key", "max_key"}, site \in {<<1, 2>>, <<2, 1>>}}

RECURSIVE FaultSetsUpTo(_)
FaultSetsUpTo(n) ==
    IF n = 0 THEN {{}}
    ELSE LET S == FaultSetsUpTo(n - 1)
         IN  S \cup {s \cup {f} : s \in S, f \in GcFaultChoices}

\* at most MaxFaults faults, no two at one place
GcFaultSets ==
    {F \in FaultSetsUpTo(MaxFaults) :
        \A f, g \in F : f # g =>
            <<f.node, f.key, f.ptr, f.bucket>> # <<g.node, g.key, g.ptr, g.bucket>>}

\* the variables of bch2_gc before its first call, on the filesystem with
\* the faults F and the open-bucket slots valid in use, with eio failing
\* node reads and muts mutator steps ahead
GcInitOn(F, valid, compat, eio, muts) ==
    /\ nodes = Forest(F)
    /\ eio_left = eio
    /\ mut_left = muts
    /\ h_woken = {}
    /\ gc_dims = ZeroDims
    /\ usage = [a \in 0..1 |-> IF a = 0 THEN InitUsage ELSE ZeroUsage]
    /\ open_buckets = [s \in OpenBucketSlots |->
                         [valid |-> s \in valid, bucket |-> OpenBucketOf(s)]]
    /\ compat_alloc_info = compat
    /\ gc_pos = gc_phase("NOT_RUNNING")
    /\ gc_alloc = {}
    /\ gc_held = {}
    /\ gc_pc = "idle"
    /\ gc_initial = FALSE
    /\ gc_iter = 0
    /\ gc_ret = "0"
    /\ gc_i = 1
    /\ gc_walk = <<>>
    /\ gc_ob = 0
    /\ run = "first"
    /\ h_bug = {}
    /\ h_passes = 0
    /\ h_marked = <<>>
    /\ h_err = <<>>
    /\ h_fsck = {}
    /\ h_set_alloc_write = FALSE
    /\ h_first = [buckets |-> ZeroGcBuckets, usage |-> ZeroUsage, ret |-> "0"]

\* the gens pass is not running
GensIdle ==
    /\ keys = [id \in BtreeIds |-> <<>>]
    /\ gs_pc = "off" /\ gs_b = 0 /\ gs_i = 1 /\ gs_k = 1 /\ gs_ret = "0"
    /\ gen_incs = 0
    /\ h_before = <<>>
    /\ h_keys = <<>>
    /\ h_commits = {}
    /\ h_visit = <<>>

\* node reads fail only on a filesystem without faults
Init ==
    /\ \E F \in GcFaultSets, valid \in SUBSET (OpenBucketSlots \ {0}), compat \in BOOLEAN :
         /\ GcInitOn(F, valid, compat, IF F = {} THEN MaxEIO ELSE 0, 0)
         /\ buckets = [a \in 0..1 |->
                         IF a = 0 THEN [b \in GcBuckets |-> InitLiveBucket(F, valid, b)]
                         ELSE ZeroGcBuckets]
    /\ flags = {}
    /\ journal_keys = {}
    /\ gc_count = 0
    /\ nomem_left = 0
    /\ GensIdle
    /\ LockIdle
    /\ StripesIdle
    /\ ThreadIdle
    /\ CoIdle

Next ==
    \/ GcCall
    \/ GcStart
    \/ GcMarkSuperblocks
    \/ GcBtreeInit
    \/ GcBtreeStart
    \/ GcBtreeNode
    \/ GcBtreeRoot
    \/ GcMarkAllocator
    \/ GcOpenBucket
    \/ GcPassEnd
    \/ GcRestartFree
    \/ GcOut
    \/ GcDone
    \/ GcDoneBuckets
    \/ GcDoneUsage
    \/ GcFinish

Spec == Init /\ [][Next]_vars

----------------------------------------------------------------------------
(* Mutators beside the online sweep.  A mutator changes a reference at a    *)
(* position of the cursor's order with mark_lock held for read: the change  *)
(* goes to the live counters, and to the shadow counters as well when the   *)
(* sweep is at or past the position.                                        *)

\* the most mutator steps beside one filesystem's sweeps
MaxMuts == 2

\* the positions a mutator inserts a key at
MutPositions == {3, 8}

\* mutators run beside the online sweep while mark_lock is not held for write
MutMayRun ==
    /\ gc_pc # "idle"
    /\ ~gc_initial
    /\ "mark_lock" \notin gc_held
    /\ mut_left > 0

\* what the mutators leave alone
mutFrame ==
    <<flags, journal_keys, gc_count, compat_alloc_info, gc_pos, gc_alloc, gc_held,
      gc_pc, gc_initial, gc_iter, gc_ret, gc_i, gc_walk, gc_ob, eio_left, run, h_bug,
      h_passes, h_marked, h_err, h_fsck, h_set_alloc_write, h_first, gensVars, auxVars, otherVars>>

\* bch2_mark_alloc_bucket(c, ca, b, owned, pos, 0): copy 0 always, copy 1
\* when gc_visited(c, pos)
MutMarkAllocBucket(bk, b, owned, pos) ==
    [a \in 0..1 |->
        IF a = 0 \/ gc_visited(gc_pos, pos)
        THEN [bk[a] EXCEPT ![b].owned_by_allocator = owned]
        ELSE bk[a]]

\* the allocator takes a bucket for a free slot: the bucket is marked as the
\* allocator's at the free lists' position, gc_pos_alloc(c, NULL), and moves
\* on to the slot
MutOpenBucket ==
    /\ MutMayRun
    /\ \E s \in OpenBucketSlots \ {0} :
         /\ ~open_buckets[s].valid
         /\ open_buckets' = [open_buckets EXCEPT ![s].valid = TRUE]
         /\ buckets' = MutMarkAllocBucket(buckets, open_buckets[s].bucket, TRUE,
                                          gc_pos_alloc(0))
    /\ mut_left' = mut_left - 1
    /\ UNCHANGED <<nodes, usage, mutFrame>>

\* the open bucket of a slot is put back: it is the allocator's no longer, a
\* change at the slot's position, gc_pos_alloc(c, ob)
MutCloseBucket ==
    /\ MutMayRun
    /\ \E s \in OpenBucketSlots \ {0} :
         /\ open_buckets[s].valid
         /\ open_buckets' = [open_buckets EXCEPT ![s].valid = FALSE]
         /\ buckets' = MutMarkAllocBucket(buckets, open_buckets[s].bucket, FALSE,
                                          gc_pos_alloc(s))
    /\ mut_left' = mut_left - 1
    /\ UNCHANGED <<nodes, usage, mutFrame>>

\* the sectors of key k, an extent of one dirty pointer, added to (sign 1) or
\* taken from (sign -1) copy a of bu = [buckets, usage]; a bucket left with
\* no sectors has no data type
MutMarkKey(bu, a, k, sign) ==
    [buckets |->
        [bu.buckets EXCEPT
           ![a][k.ptrs[1].bucket].dirty_sectors = @ + sign * k.size,
           ![a][k.ptrs[1].bucket].data_type =
               IF bu.buckets[a][k.ptrs[1].bucket].dirty_sectors + sign * k.size
                  + bu.buckets[a][k.ptrs[1].bucket].cached_sectors > 0
               THEN "user" ELSE "free"],
     usage |-> [bu.usage EXCEPT ![a].data = @ + sign * k.size]]

\* the change of key k at position pos: live, and shadow when visited
MutKey(bu, pos, k, sign) ==
    IF gc_visited(gc_pos, pos)
    THEN MutMarkKey(MutMarkKey(bu, 0, k, sign), 1, k, sign)
    ELSE MutMarkKey(bu, 0, k, sign)

MutApply(bu) ==
    /\ buckets' = bu.buckets
    /\ usage' = bu.usage

\* the leaves of the extents btree
MutLeaves == {n \in NodeIds : nodes[n].btree_id = "extents" /\ nodes[n].level = 0}

\* ks with key k put in at its place
MutKeysInsert(ks, k) ==
    SelectSeq(ks, LAMBDA x : x.p < k.p) \o <<k>> \o SelectSeq(ks, LAMBDA x : x.p > k.p)

\* an extent of the data bucket is inserted into a leaf
MutInsertKey ==
    /\ MutMayRun
    /\ \E n \in MutLeaves, p \in MutPositions :
         /\ nodes[n].min_key <= p /\ p <= nodes[n].max_key
         /\ \A j \in 1..Len(nodes[n].keys) : nodes[n].keys[j].p # p
         /\ nodes' = [nodes EXCEPT ![n].keys =
                MutKeysInsert(@, Extent(p, Geometry.btree_node_size,
                    <<[bucket |-> "u1", gen |-> buckets[0]["u1"].gen, cached |-> FALSE]>>))]
         /\ MutApply(MutKey([buckets |-> buckets, usage |-> usage],
                            gc_pos_btree_node(nodes[n]),
                            Extent(p, Geometry.btree_node_size,
                    <<[bucket |-> "u1", gen |-> buckets[0]["u1"].gen, cached |-> FALSE]>>),
                            1))
    /\ mut_left' = mut_left - 1
    /\ UNCHANGED <<open_buckets, mutFrame>>

\* an extent of one dirty pointer is deleted from a leaf
MutDeleteKey ==
    /\ MutMayRun
    /\ \E n \in MutLeaves :
         \E j \in 1..Len(nodes[n].keys) :
            /\ Len(nodes[n].keys[j].ptrs) = 1
            /\ ~nodes[n].keys[j].ptrs[1].cached
            /\ nodes' = [nodes EXCEPT ![n].keys =
                   SelectSeq(@, LAMBDA x : x.p # nodes[n].keys[j].p)]
            /\ MutApply(MutKey([buckets |-> buckets, usage |-> usage],
                               gc_pos_btree_node(nodes[n]), nodes[n].keys[j], -1))
    /\ mut_left' = mut_left - 1
    /\ UNCHANGED <<open_buckets, mutFrame>>

\* a sound filesystem, no failing reads, MaxMuts mutator steps ahead
InitMut ==
    /\ \E valid \in SUBSET (OpenBucketSlots \ {0}) :
         /\ GcInitOn({}, valid, TRUE, 0, MaxMuts)
         /\ buckets = [a \in 0..1 |->
                         IF a = 0 THEN [b \in GcBuckets |-> InitLiveBucket({}, valid, b)]
                         ELSE ZeroGcBuckets]
    /\ flags = {}
    /\ journal_keys = {}
    /\ gc_count = 0
    /\ nomem_left = 0
    /\ GensIdle
    /\ LockIdle
    /\ StripesIdle
    /\ ThreadIdle
    /\ CoIdle

\* no pass over the sound filesystem of InitMut asks for another one, so the
\* restart's bch2_gc_free has no place here
NextMut ==
    \/ GcCall
    \/ GcStart
    \/ GcMarkSuperblocks
    \/ GcBtreeInit
    \/ GcBtreeStart
    \/ GcBtreeNode
    \/ GcBtreeRoot
    \/ GcMarkAllocator
    \/ GcOpenBucket
    \/ GcPassEnd
    \/ GcOut
    \/ GcDone
    \/ GcDoneBuckets
    \/ GcDoneUsage
    \/ GcFinish
    \/ MutOpenBucket
    \/ MutCloseBucket
    \/ MutInsertKey
    \/ MutDeleteKey

SpecMut == InitMut /\ [][NextMut]_vars

----------------------------------------------------------------------------
(* c->gc_lock: bch2_gc takes it for writing, bch2_gc_gens and bch2_coalesce *)
(* for reading.  lk_pc[t] is "idle", or the line thread t is about to run,  *)
(* or the body it runs with the lock held.                                  *)

\* the most times bch2_coalesce returns early with the lock still held
MaxLockLeaks == 2

\* struct rw_semaphore: down_write goes on when nobody holds the lock
down_write_may(l) == ~l.writer /\ l.readers = 0

\* down_read goes on when no writer holds the lock
down_read_may(l) == ~l.writer

lockFrame == <<bucketVars, gensVars, gcVars, co, stripes, th>>

\* a thread calls one of the three functions and reaches its down_*
LkCall(t) ==
    /\ lk_pc[t] = "idle"
    /\ \E f \in {"gc_1007", "gens_1177", "coalesce_1528"} :
          lk_pc' = [lk_pc EXCEPT ![t] = f]
    /\ UNCHANGED <<gc_lock, lockFrame>>

\* a slip: bch2_gc takes the lock with down_read
LkGcDownRead(t) ==
    /\ lk_pc[t] = "gc_1007"
    /\ down_read_may(gc_lock)
    /\ gc_lock' = [gc_lock EXCEPT !.readers = @ + 1]
    /\ lk_pc' = [lk_pc EXCEPT ![t] = "gc_run"]
    /\ UNCHANGED lockFrame

\* bch2_gc: down_write(&c->gc_lock), then the run
LkGcDownWrite(t) ==
    /\ lk_pc[t] = "gc_1007"
    /\ down_write_may(gc_lock)
    /\ gc_lock' = [gc_lock EXCEPT !.writer = TRUE]
    /\ lk_pc' = [lk_pc EXCEPT ![t] = "gc_run"]
    /\ UNCHANGED lockFrame

\* bch2_gc: the run is over, with or without an error; up_write(&c->gc_lock)
LkGcUpWrite(t) ==
    /\ lk_pc[t] = "gc_run"
    /\ gc_lock' = [gc_lock EXCEPT !.writer = FALSE]
    /\ lk_pc' = [lk_pc EXCEPT ![t] = "idle"]
    /\ UNCHANGED lockFrame

\* bch2_gc_gens: down_read(&c->gc_lock), then the pass
LkGensDownRead(t) ==
    /\ lk_pc[t] = "gens_1177"
    /\ down_read_may(gc_lock)
    /\ gc_lock' = [gc_lock EXCEPT !.readers = @ + 1]
    /\ lk_pc' = [lk_pc EXCEPT ![t] = "gens_run"]
    /\ UNCHANGED lockFrame

\* bch2_gc_gens: the pass is over or has failed; err: up_read(&c->gc_lock)
LkGensUpRead(t) ==
    /\ lk_pc[t] = "gens_run"
    /\ gc_lock' = [gc_lock EXCEPT !.readers = @ - 1]
    /\ lk_pc' = [lk_pc EXCEPT ![t] = "idle"]
    /\ UNCHANGED lockFrame

\* bch2_coalesce: down_read(&c->gc_lock), then the loop over the btrees
LkCoalesceDownRead(t) ==
    /\ lk_pc[t] = "coalesce_1528"
    /\ down_read_may(gc_lock)
    /\ gc_lock' = [gc_lock EXCEPT !.readers = @ + 1]
    /\ lk_pc' = [lk_pc EXCEPT ![t] = "coalesce_run"]
    /\ UNCHANGED lockFrame

\* bch2_coalesce: every btree is done; up_read(&c->gc_lock)
LkCoalesceUpRead(t) ==
    /\ lk_pc[t] = "coalesce_run"
    /\ gc_lock' = [gc_lock EXCEPT !.readers = @ - 1]
    /\ lk_pc' = [lk_pc EXCEPT ![t] = "idle"]
    /\ UNCHANGED lockFrame

\* the read locks nobody is left to release
LockLeaks ==
    gc_lock.readers - Cardinality({t \in LockThreads : lk_pc[t] \in {"gens_run", "coalesce_run"}})

\* bch2_coalesce: bch2_coalesce_btree failed; return, the lock still held
LkCoalesceReturn(t) ==
    /\ lk_pc[t] = "coalesce_run"
    /\ LockLeaks < MaxLockLeaks
    /\ lk_pc' = [lk_pc EXCEPT ![t] = "idle"]
    /\ UNCHANGED <<gc_lock, lockFrame>>

InitLock ==
    /\ buckets = <<>>
    /\ flags = {}
    /\ journal_keys = {}
    /\ gc_count = 0
    /\ GensIdle
    /\ GcIdle
    /\ LockIdle
    /\ StripesIdle
    /\ ThreadIdle
    /\ CoIdle

NextLock ==
    \E t \in LockThreads :
        \/ LkCall(t)
        \/ LkGcDownWrite(t)
        \/ LkGcUpWrite(t)
        \/ LkGensDownRead(t)
        \/ LkGensUpRead(t)
        \/ LkCoalesceDownRead(t)
        \/ LkCoalesceUpRead(t)
        \/ LkCoalesceReturn(t)

SpecLock == InitLock /\ [][NextLock]_vars

\* C14: at no time are two calls of bch2_gc between their down_write and
\* their up_write, and while one is, no call of bch2_gc_gens or of
\* bch2_coalesce is between its down_read and its return.
C14_GcLockMutualExclusion ==
    LET in(pc) == {t \in LockThreads : lk_pc[t] = pc}
    IN  /\ Cardinality(in("gc_run")) <= 1
        /\ in("gc_run") # {} => in("gens_run") = {} /\ in("coalesce_run") = {}

\* a call of bch2_gc holds the lock while a second call of bch2_gc and a
\* call of bch2_gc_gens stand at their down_*
C14_Witness ==
    \E t, u, v \in LockThreads :
        lk_pc[t] = "gc_run" /\ lk_pc[u] = "gc_1007" /\ lk_pc[v] = "gens_1177"

----------------------------------------------------------------------------
(* Coalescing: bch2_coalesce_nodes on a sliding window of sibling nodes.    *)
(* old_nodes[1] is the node the walk reached last, the rightmost one; each  *)
(* later entry is its left neighbour.  A node is [min_key, max_key, keys],  *)
(* a key [p, u64s].                                                         *)

\* the most nodes in a window, the most keys in a node of the inputs
MaxWindow == 3
MaxNodeKeys == 2

\* a block and the header of a node in u64s, btree_blocks(c)
CoGeometry == [block_u64s |-> 4, header_u64s |-> 2, btree_blocks |-> 3]

\* __vstruct_blocks(struct btree_node, c->block_bits, u64s)
vstruct_blocks(u64s) ==
    (CoGeometry.header_u64s + u64s + CoGeometry.block_u64s - 1) \div CoGeometry.block_u64s

\* blocks = btree_blocks(c) * 2 / 3
coalesce_blocks == (CoGeometry.btree_blocks * 2) \div 3

RECURSIVE KeysU64s(_)
KeysU64s(ks) == IF ks = <<>> THEN 0 ELSE Head(ks).u64s + KeysU64s(Tail(ks))

RECURSIVE NodesU64s(_)
NodesU64s(ns) == IF ns = <<>> THEN 0 ELSE KeysU64s(Head(ns).keys) + NodesU64s(Tail(ns))

\* the keys of the nodes ns in key order: the last node's first
RECURSIVE NodesKeys(_)
NodesKeys(ns) == IF ns = <<>> THEN <<>> ELSE NodesKeys(Tail(ns)) \o Head(ns).keys

\* the check on entry: all the keys would fit in one node fewer
coalesce_may(old_nodes) ==
    /\ Len(old_nodes) > 1
    /\ vstruct_blocks((NodesU64s(old_nodes) + Len(old_nodes) - 2) \div (Len(old_nodes) - 1))
           <= coalesce_blocks

\* the for loop over s2: how many keys from the start of ks fit in n1
RECURSIVE coalesce_take(_, _, _)
coalesce_take(n1_u64s, ks, u64s) ==
    IF ks # <<>> /\ vstruct_blocks(n1_u64s + u64s + Head(ks).u64s) <= coalesce_blocks
    THEN 1 + coalesce_take(n1_u64s, Tail(ks), u64s + Head(ks).u64s)
    ELSE 0

\* a slip: n1 takes the keys of n2 and keeps its own max_key
coalesce_merge_keys_only(new_nodes, i) ==
    SubSeq(new_nodes, 1, i - 1)
    \o <<[new_nodes[i + 1] EXCEPT !.keys = @ \o new_nodes[i].keys]>>
    \o SubSeq(new_nodes, i + 2, Len(new_nodes))

\* n2 fits entirely in n1: n1 takes its keys and its max_key, n2 is freed and
\* the entries above it close the gap
coalesce_merge(new_nodes, i) ==
    SubSeq(new_nodes, 1, i - 1)
    \o <<[new_nodes[i + 1] EXCEPT !.max_key = new_nodes[i].max_key,
                                 !.keys = @ \o new_nodes[i].keys]>>
    \o SubSeq(new_nodes, i + 2, Len(new_nodes))

\* part of n2 moves into n1: n1 ends at the last key moved, n2 starts after it
coalesce_move(new_nodes, i, cnt) ==
    [new_nodes EXCEPT
       ![i + 1] = [@ EXCEPT !.max_key = new_nodes[i].keys[cnt].p,
                            !.keys = @ \o SubSeq(new_nodes[i].keys, 1, cnt)],
       ![i] = [@ EXCEPT !.min_key = bkey_successor(new_nodes[i].keys[cnt].p),
                        !.keys = SubSeq(@, cnt + 1, Len(@))]]

\* one turn of the slicing loop, n1 = new_nodes[i + 1] and n2 = new_nodes[i],
\* cnt keys of n2 fitting
coalesce_slice(new_nodes, i, cnt) ==
    IF cnt = Len(new_nodes[i].keys) THEN coalesce_merge(new_nodes, i)
    ELSE IF cnt > 0 THEN coalesce_move(new_nodes, i, cnt)
    ELSE new_nodes

\* the key of a node in its parent: its position is the node's max_key; new
\* tells a replacement from the node it replaces
coalesce_old_key(n) == [p |-> n.max_key, type |-> "btree_ptr", new |-> FALSE]

\* &new_nodes[i]->key, its position kept equal to max_key by the slicing
coalesce_new_key(n) == [p |-> n.max_key, type |-> "btree_ptr", new |-> TRUE]

\* bkey_init(&delete.k); delete.k.p = old_nodes[i]->key.k.p
coalesce_delete_key(n) == [p |-> n.max_key, type |-> "deleted", new |-> FALSE]

\* bch2_keylist_add_in_order: insert goes before the first key of the list
\* whose position is greater than its own
bch2_keylist_add_in_order(l, insert) ==
    LET n == Cardinality({m \in 1..Len(l) : \A q \in 1..m : ~(insert.p < l[q].p)})
    IN  SubSeq(l, 1, n) \o <<insert>> \o SubSeq(l, n + 1, Len(l))

\* a slip: the deletion key of an old node is added whatever the new nodes'
\* positions are
coalesce_skip_delete_never(old, new_nodes) == FALSE

\* the inner loop of lines 1390-1393: some new node has the old node's position
coalesce_skip_delete(old, new_nodes) ==
    \E j \in 1..Len(new_nodes) : old.max_key = new_nodes[j].max_key

\* the loop of lines 1386-1400 from old_nodes[i] on
RECURSIVE coalesce_deletes(_, _, _, _)
coalesce_deletes(l, old_nodes, new_nodes, i) ==
    IF i > Len(old_nodes) THEN l
    ELSE coalesce_deletes(
             IF coalesce_skip_delete(old_nodes[i], new_nodes) THEN l
             ELSE bch2_keylist_add_in_order(l, coalesce_delete_key(old_nodes[i])),
             old_nodes, new_nodes, i + 1)

\* the loop of lines 1408-1409 from new_nodes[i] on
RECURSIVE coalesce_inserts(_, _, _)
coalesce_inserts(l, new_nodes, i) ==
    IF i > Len(new_nodes) THEN l
    ELSE coalesce_inserts(bch2_keylist_add_in_order(l, coalesce_new_key(new_nodes[i])),
                          new_nodes, i + 1)

\* the keylist as line 1412 hands it over
coalesce_keylist(old_nodes, new_nodes) ==
    coalesce_inserts(coalesce_deletes(<<>>, old_nodes, new_nodes, 1), new_nodes, 1)

\* bch2_btree_insert_node: the keys of the list go into the parent one after
\* the other from the front, each taking the place of the parent's key at its
\* position; a deleted key leaves nothing there
RECURSIVE bch2_btree_insert_node(_, _)
bch2_btree_insert_node(parent, keylist) ==
    IF keylist = <<>> THEN parent
    ELSE LET k == Head(keylist)
         IN  bch2_btree_insert_node(
                 {x \in parent : x.p # k.p} \cup (IF k.type = "deleted" THEN {} ELSE {k}),
                 Tail(keylist))

\* the windows: up to MaxWindow siblings side by side, each with up to
\* MaxNodeKeys keys of two or three u64s
CoKeySeqs == UNION {[1..n -> {2, 3}] : n \in 0..MaxNodeKeys}
CoWindow(sizes) ==
    [j \in 1..Len(sizes) |->
       LET start == (Len(sizes) - j) * (MaxNodeKeys + 1)
       IN  [min_key |-> start, max_key |-> start + MaxNodeKeys,
            keys |-> [m \in 1..Len(sizes[j]) |-> [p |-> start + m - 1, u64s |-> sizes[j][m]]]]]

\* the parent of a window: the keys of its nodes, and the key of a sibling to
\* the right of every window
CoParent(old_nodes) ==
    {coalesce_old_key(old_nodes[j]) : j \in 1..Len(old_nodes)}
    \cup {[p |-> (MaxWindow + 1) * (MaxNodeKeys + 1) - 1, type |-> "btree_ptr", new |-> FALSE]}

coFrame == <<bucketVars, gensVars, gcVars, lockVars, stripes, th>>

\* return before anything is allocated: the check on entry fails, or the
\* format does not fit, or the keylist or the reserve cannot be had
CoReturn ==
    /\ co.pc = "start"
    /\ co' = [co EXCEPT !.pc = "returned"]
    /\ UNCHANGED coFrame

\* lines 1289-1298: a replacement for every old node
CoRepack ==
    /\ co.pc = "start"
    /\ coalesce_may(co.old_nodes)
    /\ co' = [co EXCEPT !.pc = "slice", !.new_nodes = co.old_nodes,
                        !.i = Len(co.old_nodes) - 1]
    /\ UNCHANGED coFrame

\* one turn of the loop of lines 1304-1362
CoSlice ==
    /\ co.pc = "slice" /\ co.i > 0
    /\ co' = [co EXCEPT
                !.new_nodes = coalesce_slice(@, co.i,
                    coalesce_take(KeysU64s(co.new_nodes[co.i + 1].keys),
                                  co.new_nodes[co.i].keys, 0)),
                !.i = @ - 1]
    /\ UNCHANGED coFrame

\* lines 1364-1409: the new nodes are written and the keylist is filled
CoKeylist ==
    /\ co.pc = "slice" /\ co.i = 0
    /\ co' = [co EXCEPT !.pc = "insert",
                        !.keylist = coalesce_keylist(co.old_nodes, co.new_nodes)]
    /\ UNCHANGED coFrame

\* lines 1412-1443: the keylist goes into the parent and is empty afterwards,
\* the old nodes are freed
CoInsert ==
    /\ co.pc = "insert"
    /\ co' = [co EXCEPT !.pc = "done",
                        !.parent = bch2_btree_insert_node(@, co.keylist),
                        !.keylist = <<>>]
    /\ UNCHANGED coFrame

InitCoalesce ==
    /\ buckets = <<>>
    /\ flags = {}
    /\ journal_keys = {}
    /\ gc_count = 0
    /\ GensIdle
    /\ GcIdle
    /\ LockIdle
    /\ StripesIdle
    /\ ThreadIdle
    /\ \E nr \in 1..MaxWindow : \E sizes \in [1..nr -> CoKeySeqs] :
          co = [pc |-> "start", old_nodes |-> CoWindow(sizes), new_nodes |-> <<>>,
                i |-> 0, keylist |-> <<>>, parent |-> CoParent(CoWindow(sizes))]

NextCoalesce == CoReturn \/ CoRepack \/ CoSlice \/ CoKeylist \/ CoInsert

SpecCoalesce == InitCoalesce /\ [][NextCoalesce]_vars

\* C15: when bch2_coalesce_nodes has coalesced a window, the keys of the new
\* nodes taken in key order are the keys of the old nodes taken in key order,
\* each new node starts at the successor of its left neighbour's max_key,
\* the leftmost starts where the leftmost old node started and the rightmost
\* ends where the rightmost old node ended, and the new nodes are no more
\* than the old ones.
C15_CoalescePreservesKeys ==
    co.pc = "done" =>
        /\ NodesKeys(co.new_nodes) = NodesKeys(co.old_nodes)
        /\ \A j \in 1..(Len(co.new_nodes) - 1) :
              co.new_nodes[j].min_key = bkey_successor(co.new_nodes[j + 1].max_key)
        /\ co.new_nodes[Len(co.new_nodes)].min_key = co.old_nodes[Len(co.old_nodes)].min_key
        /\ co.new_nodes[1].max_key = co.old_nodes[1].max_key
        /\ Len(co.new_nodes) <= Len(co.old_nodes)

\* a window of three nodes has become two: one node took part of its right
\* neighbour's keys, the other was merged away
C15_Witness ==
    /\ co.pc = "done"
    /\ Len(co.old_nodes) = 3 /\ Len(co.new_nodes) = 2
    /\ \E j \in 1..2 : /\ co.new_nodes[j].keys # <<>>
                       /\ \A m \in 1..3 : co.new_nodes[j].max_key # co.old_nodes[m].max_key

----------------------------------------------------------------------------
(* Claims about bch2_gc, checked under Spec *)

\* C1: within a mark pass every value gc_pos_set assigns is strictly greater
\* than the one it replaces: its BUG_ON never fires, whatever tree is walked
\* and whichever open-bucket slots are valid.
C1_PosStrictlyIncreasing == "gc_pos_set" \notin h_bug

\* an online pass has gone through the three-level btree and both open-bucket
\* slots and stands behind the last one
C1_Witness ==
    /\ gc_pc = "pass_end"
    /\ ~gc_initial
    /\ open_buckets[1].valid /\ open_buckets[2].valid
    /\ gc_pos = gc_pos_alloc(2)

\* C2 as stated: whatever the interleaving of an online sweep with mutators
\* that keep the position law, when bch2_gc_done runs every shadow bucket
\* field and usage counter equals the live one, so that reconciliation
\* changes no live value.
C2_ShadowEqualsLiveAtDone ==
    (gc_pc = "done" /\ ~gc_initial) =>
        /\ \A b \in GcBuckets, f \in BucketFields : buckets[1][b][f] = buckets[0][b][f]
        /\ usage[1] = usage[0]

\* an online sweep reaches bch2_gc_done after mutators opened a bucket and put
\* it back
C2_Witness ==
    /\ gc_pc = "done"
    /\ ~gc_initial
    /\ mut_left = 0
    /\ \A slot \in OpenBucketSlots : ~open_buckets[slot].valid

\* the keys bch2_gc marks: all but the leaf keys of btrees whose type needs no gc
KeyIsMarked(id) ==
    id.is_root \/ id.level > 0 \/ btree_node_type_needs_gc(id.btree_id)

\* how often the current pass marked the key id
Marks(id) == Cardinality({j \in 1..Len(h_marked) : h_marked[j].id = id})

\* the shadow sector counts of bucket b are the sums over the keys AK
ShadowIsKeySum(AK, b) ==
    /\ buckets[1][b].dirty_sectors = KeysSectors(AK, b, buckets[1][b].gen, FALSE)
    /\ buckets[1][b].cached_sectors = KeysSectors(AK, b, buckets[1][b].gen, TRUE)

C4_SecondRunChangesNothing ==
    (/\ run = "over"
     /\ h_first.ret = "0"
     /\ gc_ret = "0"
     /\ \A e \in journal_keys : ~e.deleted)
    => /\ buckets[0] = h_first.buckets
       /\ usage[0] = h_first.usage
       /\ h_fsck = {}
       /\ ~h_set_alloc_write

\* both calls returned 0 on a filesystem that lost no key
C4_Witness ==
    /\ run = "over"
    /\ gc_initial
    /\ h_first.ret = "0"
    /\ gc_ret = "0"
    /\ \A e \in journal_keys : ~e.deleted

\* C5 as stated: one call runs the mark pass at most 3 times.
C5_AtMostThreePasses == h_passes <= 3

\* C5, amended: one call of bch2_gc runs the mark pass at most 4 times (the
\* first pass and 3 restarts); it reconciles only with ret 0, and when the
\* fourth pass too leaves the need-another-pass flag set it returns an error.
C5_AtMostFourPasses ==
    /\ h_passes <= 4
    /\ gc_pc = "done" => gc_ret = "0"
    /\ (/\ gc_pc \in {"out", "done", "finish"}
        /\ h_passes = 4
        /\ "BCH_FS_NEED_ANOTHER_GC" \in flags) => gc_ret # "0"

\* the fourth pass of a call left the flag set and the call ended in -EINVAL
C5_Witness ==
    /\ gc_pc = "finish"
    /\ h_passes = 4
    /\ "BCH_FS_NEED_ANOTHER_GC" \in flags
    /\ gc_ret = "-EINVAL"

----------------------------------------------------------------------------
(* Claims about the repairs of the initial pass, checked under Spec *)

\* the keys of interior node n, as the overlay shows them, tile its range
TopologyHolds(n) ==
    LET ks == btree_and_journal_iter(nodes[n], journal_keys)
    IN  ks # <<>> =>
          /\ ks[1].min_key = nodes[n].min_key
          /\ \A j \in 2..Len(ks) : ks[j].min_key = bkey_successor(ks[j - 1].p)
          /\ ks[Len(ks)].p = nodes[n].max_key

\* the interior nodes a walk from the roots reaches through the overlay
InteriorNodes ==
    {n \in UNION {NodesBelow(nodes, journal_keys, btree_roots(id)) : id \in BtreeIds} :
        nodes[n].level > 0}

\* C11: when an initial-mode run has returned success, every interior node
\* that still has children has, through the overlay, a first child whose
\* min_key is the node's min_key, later children that each start at the
\* successor of the previous child's position, and a last child whose
\* position is the node's max_key.
C11_TopologyAfterInitialRun ==
    (gc_pc = "finish" /\ gc_initial /\ gc_ret = "0") =>
        \A n \in InteriorNodes : TopologyHolds(n)

\* an initial run has returned success after check_topology rewrote a key
\* whose range was off
C11_Witness ==
    /\ gc_pc = "finish" /\ gc_initial /\ gc_ret = "0"
    /\ \E e \in h_fsck : e.msg \in {"incorrect min_key", "incorrect max_key"}
    /\ \E e \in journal_keys : ~e.deleted /\ e.k.child # 0

\* the leaf keys, read through the overlay, that hold a dirty pointer whose
\* gen is ahead of its bucket's
FutureDirtyLeafKeys ==
    {e \in AllKeys(nodes, journal_keys) :
        /\ e.id.level = 0 /\ ~e.id.is_root
        /\ btree_node_type_needs_gc(e.id.btree_id)
        /\ \E i \in 1..Len(e.k.ptrs) :
              /\ ~e.k.ptrs[i].cached
              /\ gen_cmp(e.k.ptrs[i].gen, buckets[0][e.k.ptrs[i].bucket].gen) > 0}

\* C12 as stated: in an initial run, a leaf key whose dirty pointer has a gen
\* ahead of its bucket's makes the pass that marks it end with
\* need-another-pass set, and the run ends with success after a further pass
\* that finds the pointer gone.
C12_FutureDirtyPtrRestarts ==
    /\ (gc_initial /\ gc_pc = "pass_end" /\ FutureDirtyLeafKeys # {})
           => "BCH_FS_NEED_ANOTHER_GC" \in flags
    /\ (gc_initial /\ gc_pc = "finish"
            /\ \E e \in h_fsck : e.msg = "ptr gen in the future" /\ e.bucket = "u1")
           => gc_ret = "0" /\ h_passes >= 2 /\ FutureDirtyLeafKeys = {}

\* an initial run has reported the dirty pointer's gen, has come back with
\* success after a single pass, and the key still holds the pointer
C12_Witness ==
    /\ gc_initial /\ gc_pc = "finish" /\ gc_ret = "0" /\ h_passes = 1
    /\ \E e \in h_fsck : e.msg = "ptr gen in the future" /\ e.bucket = "u1"
    /\ FutureDirtyLeafKeys # {}
    /\ "BCH_FS_NEED_ANOTHER_GC" \notin flags

\* C13 as stated: no step of an online run (initial = false) inserts a key
\* into the journal-key overlay or deletes one from it, whatever the tree
\* holds, interior nodes whose children's ranges are off included.
C13_OnlineRunLeavesOverlay ==
    [][(~gc_initial /\ gc_pc \notin {"off", "idle"}) => journal_keys' = journal_keys]_vars

\* the first run, an online one, has found a child's range off and the
\* overlay, empty when the run began, holds the rewritten key
C13_Witness ==
    /\ run = "first" /\ ~gc_initial /\ gc_pc = "walk"
    /\ \E e \in h_fsck : e.msg \in {"incorrect min_key", "incorrect max_key"}
    /\ \E e \in journal_keys : ~e.deleted /\ e.k.child # 0

\* an initial pass is marking, or has marked, the btrees; the shadow arrays
\* are there
InitialPassMarking ==
    gc_initial /\ gc_pc \in {"btrees", "open_buckets", "pass_end"}

\* the dirty pointers of the keys in the overlay whose bucket has no valid
\* gen in the shadow array, or a gen behind the pointer's
FlaggedDirtyPtrsInOverlay ==
    {<<e, i>> \in {<<e, i>> \in journal_keys \X (1..MaxPtrs) :
                      ~e.deleted /\ i <= Len(e.k.ptrs)} :
        /\ ~e.k.ptrs[i].cached
        /\ \/ ~buckets[1][e.k.ptrs[i].bucket].gen_valid
           \/ gen_cmp(e.k.ptrs[i].gen, buckets[1][e.k.ptrs[i].bucket].gen) > 0}

\* C16 as stated: in an initial pass, a key that bch2_check_fix_ptrs has put
\* into the overlay holds no dirty pointer whose bucket has no valid gen or
\* whose gen is ahead of its bucket's.
C16_RewrittenKeyLacksFlaggedPtr ==
    InitialPassMarking => FlaggedDirtyPtrsInOverlay = {}

\* an initial pass has reported a dirty pointer for its bucket's missing or
\* older gen and the key it put into the overlay still holds the pointer
C16_Witness ==
    /\ InitialPassMarking
    /\ \E x \in FlaggedDirtyPtrsInOverlay :
          \E e \in h_fsck : /\ e.bucket = x[1].k.ptrs[x[2]].bucket
                            /\ e.msg \in {"missing in alloc btree", "ptr gen in the future"}

\* a dirty pointer behind its bucket's gen in the bucket array arr
StaleDirty(p, arr) == ~p.cached /\ gen_cmp(p.gen, arr[p.bucket].gen) < 0

\* the keys below the roots that a pass marks and that hold a stale dirty
\* pointer, read through the overlay
StaleDirtyKeys ==
    {e \in AllKeys(nodes, journal_keys) :
        /\ ~e.id.is_root /\ KeyIsMarked(e.id)
        /\ \E i \in 1..Len(e.k.ptrs) : StaleDirty(e.k.ptrs[i], buckets[1])}

\* C17: in an initial pass, for a key below the root that holds a stale dirty
\* pointer, bch2_check_fix_ptrs returns 0 and leaves in the overlay, at the
\* key's btree, level and position, the key without its stale dirty pointers,
\* and bch2_gc_mark_key goes on to mark that rewritten key.
C17_StaleDirtyPtrDropped ==
    (gc_initial /\ InBtrees) =>
        \A e \in StaleDirtyKeys :
            LET r == bch2_check_fix_ptrs(GcState, e.id.btree_id, e.id.level, FALSE, e.k)
                m == bch2_gc_mark_key(GcState, e.id.btree_id, e.id.level, FALSE, e.k, TRUE)
            IN  /\ r.ret = "0"
                /\ r.k.ptrs = SelectSeq(e.k.ptrs, LAMBDA p : ~StaleDirty(p, buckets[1]))
                /\ [btree_id |-> e.id.btree_id, level |-> e.id.level, pos |-> e.k.p,
                    deleted |-> FALSE, k |-> r.k] \in r.st.journal_keys
                /\ m.ret = "0"
                /\ m.st.marked[Len(m.st.marked)] = [id |-> e.id, ptrs |-> r.k.ptrs]

\* an initial pass has reported a stale dirty pointer of a leaf extent; the
\* overlay holds the extent without the pointer, and that is the key the
\* pass marked
C17_Witness ==
    /\ InitialPassMarking
    /\ \E x \in h_fsck : x.msg = "stale dirty ptr" /\ x.bucket = "u1"
    /\ \E e \in journal_keys, n \in NodeIds :
          /\ ~e.deleted /\ nodes[n].level = 0
          /\ e.btree_id = nodes[n].btree_id /\ e.level = 0
          /\ \E j \in 1..Len(nodes[n].keys) :
                /\ nodes[n].keys[j].p = e.pos
                /\ Len(e.k.ptrs) < Len(nodes[n].keys[j].ptrs)
                /\ \E i \in 1..Len(nodes[n].keys[j].ptrs) :
                      StaleDirty(nodes[n].keys[j].ptrs[i], buckets[1])
          /\ \A i \in 1..Len(e.k.ptrs) : ~StaleDirty(e.k.ptrs[i], buckets[1])
          /\ \E j \in 1..Len(h_marked) :
                h_marked[j] = [id |-> KeyId(e.btree_id, 0, FALSE, e.k), ptrs |-> e.k.ptrs]

\* the cached pointers of the keys a pass marks whose bucket has a valid gen
\* in the shadow array that the pointer's gen is ahead of: <<key, index>>
FutureCachedPtrs ==
    {x \in AllKeys(nodes, journal_keys) \X (1..MaxPtrs) :
        /\ KeyIsMarked(x[1].id) /\ x[2] <= Len(x[1].k.ptrs)
        /\ x[1].k.ptrs[x[2]].cached
        /\ buckets[1][x[1].k.ptrs[x[2]].bucket].gen_valid
        /\ gen_cmp(x[1].k.ptrs[x[2]].gen, buckets[1][x[1].k.ptrs[x[2]].bucket].gen) > 0}

\* what the result r of bch2_check_fix_ptrs holds for the pointer p
FutureCachedPtrRepaired(p, r) ==
    /\ r.st.buckets[0][p.bucket].gen = p.gen
    /\ r.st.buckets[1][p.bucket].gen = p.gen
    /\ r.st.buckets[0][p.bucket].gen_valid
    /\ r.st.buckets[1][p.bucket].gen_valid
    /\ r.st.buckets[0][p.bucket].data_type = "free"
    /\ r.st.buckets[0][p.bucket].dirty_sectors = 0
    /\ r.st.buckets[0][p.bucket].cached_sectors = 0
    /\ {"BCH_FS_NEED_ANOTHER_GC", "BCH_FS_NEED_ALLOC_WRITE"} \subseteq r.st.flags
    /\ \E i \in 1..Len(r.k.ptrs) : r.k.ptrs[i] = p

RootKeysToUpdate ==
    {e \in AllKeys(nodes, journal_keys) :
        /\ e.id.is_root
        /\ check_fix_ptrs_loop([st |-> GcState, do_update |-> FALSE], e.k.ptrs).do_update}

\* C19: in an initial pass, when bch2_check_fix_ptrs finds that the key of a
\* btree root needs an update, it returns -EINVAL and leaves the overlay as
\* it was; and the call of bch2_gc, its shadow arrays allocated, comes to
\* its end with -EINVAL and never reaches bch2_gc_done.
C19_RootKeyUpdateIsEINVAL ==
    /\ (gc_initial /\ InBtrees) =>
           \A e \in RootKeysToUpdate :
               LET r == bch2_check_fix_ptrs(GcState, e.id.btree_id, e.id.level, TRUE, e.k)
               IN  r.ret = "-EINVAL" /\ r.st.journal_keys = journal_keys
    /\ (gc_initial /\ gc_pc \in {"out", "done"}
            /\ (\A i \in 1..Len(AllocOrder) : AllocOrder[i] \in gc_alloc)
            /\ RootKeysToUpdate # {})
           => gc_pc = "out" /\ gc_ret = "-EINVAL"

\* an initial run has come back with -EINVAL after one pass that reported the
\* stale pointer of the dirents root; nothing was put into the overlay and
\* the live bucket is as it was
C19_Witness ==
    /\ gc_initial /\ gc_pc = "finish" /\ gc_ret = "-EINVAL" /\ h_passes = 1
    /\ \E e \in h_fsck : e.msg = "stale dirty ptr" /\ e.bucket = "bt2"
    /\ StaleDirty(nodes[btree_roots("dirents")].key.ptrs[1], buckets[0])
    /\ journal_keys = {}

\* C20: once a call of bch2_gc stands at out: with an error (the shadow
\* allocation failed, a btree sweep returned an error, or need-another-pass
\* was still set after the last restart allowed), it keeps that error, never
\* comes to bch2_gc_done, and no step up to its return changes a live bucket
\* or a live usage counter.
C20_FailedGcSkipsDone ==
    [][(gc_pc \in {"out", "finish"} /\ gc_ret # "0") =>
          /\ gc_pc' # "done"
          /\ gc_ret' = gc_ret
          /\ buckets'[0] = buckets[0]
          /\ usage'[0] = usage[0]]_vars

\* a run has given up with -EINVAL after its fourth pass, need-another-pass
\* still set, and stands before its return with a shadow array that differs
\* from the live one
C20_Witness ==
    /\ gc_pc = "finish" /\ gc_ret = "-EINVAL" /\ h_passes = 4
    /\ "BCH_FS_NEED_ANOTHER_GC" \in flags
    /\ \E b \in GcBuckets, f \in BucketFields : buckets[1][b][f] # buckets[0][b][f]

----------------------------------------------------------------------------
(* Claims about the way out of bch2_gc, checked under Spec *)

\* a call of bch2_gc has returned
GcReturned == gc_pc = "idle" /\ run # "first"

\* C21: whenever a call of bch2_gc has returned, whatever its result (0,
\* -ENOMEM from the shadow allocation, an error of the sweep, -EINVAL after
\* the last restart allowed), gc_pos is NOT_RUNNING, no shadow allocation is
\* left and the shadow bucket array and usage are gone, bch2_gc holds neither
\* mark_lock nor gc_lock, and the allocator and c->freelist_wait were woken.
C21_ReturnReleasesEverything ==
    GcReturned =>
        /\ gc_pos = gc_phase("NOT_RUNNING")
        /\ gc_alloc = {}
        /\ buckets[1] = ZeroGcBuckets
        /\ usage[1] = ZeroUsage
        /\ gc_dims = ZeroDims
        /\ gc_held = {}
        /\ h_woken = {"allocator", "freelist_wait"}

\* a call has returned -ENOMEM: after at least one full pass and a restart,
\* bch2_gc_start failed with a part of the shadow state allocated
C21_Witness ==
    /\ GcReturned
    /\ gc_ret = "-ENOMEM"
    /\ h_passes >= 1
    /\ gc_iter >= 1

----------------------------------------------------------------------------
(* bch2_gc_done on its own: bch2_gc stands before it, at the end of a mark  *)
(* pass, with a shadow state that differs from the live one in a few places *)
(* and with stripes.                                                        *)

\* the most stripes of the shadow radix tree
MaxStripes == 2

\* the most places where the shadow buckets and counters differ from the live
MaxDoneDiffs == 2

\* a stripe as the mark pass counted it
DoneStripe ==
    [alive |-> TRUE, sectors |-> 8, algorithm |-> 1, nr_blocks |-> 2,
     nr_redundant |-> 1, block_sectors |-> <<8, 0>>, blocks_nonempty |-> 1]

\* how the live stripe stands beside the shadow stripe: equal, other sector
\* counts of its blocks, a stale count of nonempty blocks, another shape, or
\* no slot in the live radix tree
DoneStripeCases == {"same", "block_sectors", "blocks_nonempty", "absent"} \cup StripeShape

DoneLiveStripe(s, case) ==
    CASE case = "block_sectors" -> [s EXCEPT !.block_sectors = <<8, 8>>,
                                             !.blocks_nonempty = 2]
      [] case = "blocks_nonempty" -> [s EXCEPT !.blocks_nonempty = 2]
      [] case = "alive" -> [s EXCEPT !.alive = FALSE]
      [] case = "sectors" -> [s EXCEPT !.sectors = 16]
      [] case = "algorithm" -> [s EXCEPT !.algorithm = 0]
      [] case = "nr_blocks" -> [s EXCEPT !.nr_blocks = 1]
      [] case = "nr_redundant" -> [s EXCEPT !.nr_redundant = 0]
      [] OTHER -> s

\* the live radix tree: it ends before the first slot that is absent
DoneLiveStripes(cases) ==
    LET n == IF \E j \in 1..Len(cases) : cases[j] = "absent"
             THEN (CHOOSE j \in 1..Len(cases) :
                      /\ cases[j] = "absent"
                      /\ \A i \in 1..(j - 1) : cases[i] # "absent") - 1
             ELSE Len(cases)
    IN  [j \in 1..n |-> DoneLiveStripe(DoneStripe, cases[j])]

\* the places where shadow may differ from live: the fields of a bucket and
\* the usage counters
DonePlaces ==
    ({"u1"} \X (BucketFields \cup {"oldest_gen"})) \cup ({"fs"} \X UsageFields)

RECURSIVE DoneDiffSets(_)
DoneDiffSets(n) ==
    IF n = 0 THEN {{}}
    ELSE LET S == DoneDiffSets(n - 1)
         IN  S \cup {s \cup {d} : s \in S, d \in DonePlaces}

\* the shadow value of a field whose live value is v
DoneOther(f, v) ==
    CASE f = "data_type" -> IF v = "user" THEN "cached" ELSE "user"
      [] f \in {"owned_by_allocator", "stripe"} -> ~v
      [] f = "oldest_gen" -> v - 1
      [] f = "gen" -> v + 1
      [] OTHER -> v + 8

DoneShadowBucket(D, b, live) ==
    [f \in DOMAIN live |-> IF <<b, f>> \in D THEN DoneOther(f, live[f]) ELSE live[f]]

DoneShadowUsage(D, live) ==
    [f \in DOMAIN live |-> IF <<"fs", f>> \in D THEN DoneOther(f, live[f]) ELSE live[f]]

\* the sound filesystem, its live buckets and counters
DoneForest == Forest({})
DoneLiveBuckets == [b \in GcBuckets |-> InitLiveBucket({}, {}, b)]
DoneLiveUsage == InitUsage

\* bch2_gc at line 1057: the mark pass is over, the journal blocked and
\* mark_lock taken
InitDone ==
    /\ \E initial \in BOOLEAN, compat \in BOOLEAN, D \in DoneDiffSets(MaxDoneDiffs) :
         \E n \in 0..MaxStripes :
            \E cases \in [1..n -> DoneStripeCases] :
               /\ nodes = DoneForest
               /\ eio_left = 0
               /\ mut_left = 0
               /\ h_woken = {}
               /\ gc_dims = LiveDims
               /\ usage = [a \in 0..1 |->
                             IF a = 0 THEN DoneLiveUsage
                             ELSE DoneShadowUsage(D, DoneLiveUsage)]
               /\ open_buckets = [s \in OpenBucketSlots |->
                                    [valid |-> FALSE, bucket |-> OpenBucketOf(s)]]
               /\ compat_alloc_info = compat
               /\ gc_initial = initial
               /\ buckets = [a \in 0..1 |->
                               [b \in GcBuckets |->
                                   IF a = 0 THEN DoneLiveBuckets[b]
                                   ELSE DoneShadowBucket(D, b, DoneLiveBuckets[b])]]
               /\ stripes = [a \in 0..1 |->
                               IF a = 0 THEN DoneLiveStripes(cases)
                               ELSE [j \in 1..n |-> DoneStripe]]
    /\ gc_pos = gc_pos_alloc(0)
    /\ gc_alloc = {AllocOrder[i] : i \in 1..Len(AllocOrder)}
    /\ gc_held = {"gc_lock", "journal_block", "mark_lock"}
    /\ gc_pc = "done"
    /\ gc_iter = 0
    /\ gc_ret = "0"
    /\ gc_i = Len(btree_ids) + 1
    /\ gc_walk = <<>>
    /\ gc_ob = 0
    /\ run = "first"
    /\ h_bug = {}
    /\ h_passes = 1
    /\ h_marked = <<>>
    /\ h_err = <<>>
    /\ h_fsck = {}
    /\ h_set_alloc_write = FALSE
    /\ h_first = [buckets |-> ZeroGcBuckets, usage |-> ZeroUsage, ret |-> "0"]
    /\ flags = {}
    /\ journal_keys = {}
    /\ gc_count = 1
    /\ nomem_left = 0
    /\ GensIdle
    /\ LockIdle
    /\ CoIdle
    /\ ThreadIdle

NextDone ==
    \/ GcDone
    \/ GcDoneBuckets
    \/ GcDoneUsage
    \/ GcFinish

SpecDone == InitDone /\ [][NextDone]_vars

----------------------------------------------------------------------------
(* Claims about bch2_gc_done, checked under SpecDone *)

\* bch2_gc_done has returned 0 and bch2_gc has yet to free the shadow state
GcDoneOk == gc_pc = "finish" /\ gc_ret = "0"

\* C22: when bch2_gc_done has returned 0, every bucket's live gen, data_type,
\* owned_by_allocator, stripe, dirty_sectors, cached_sectors and oldest_gen
\* equal the shadow bucket's and every live usage counter equals the shadow
\* counter, with verify on or off.
C22_DoneMakesLiveEqualShadow ==
    GcDoneOk =>
        /\ \A b \in GcBuckets, f \in BucketFields \cup {"oldest_gen"} :
              buckets[0][b][f] = buckets[1][b][f]
        /\ \A f \in UsageFields : usage[0][f] = usage[1][f]

\* bch2_gc_done has returned 0 with verify off: it reported nothing, and it
\* did correct a difference, the shadow bucket's oldest_gen being behind its
\* gen
C22_Witness ==
    /\ GcDoneOk
    /\ gc_initial /\ ~compat_alloc_info
    /\ h_fsck = {}
    /\ h_set_alloc_write
    /\ buckets[1]["u1"].oldest_gen # buckets[1]["u1"].gen
    /\ buckets[0]["u1"].oldest_gen = buckets[1]["u1"].oldest_gen

\* slot pos of a radix tree of stripes, zeroed if it is not there
StripeAt(s, pos) == IF pos <= Len(s) THEN s[pos] ELSE ZeroStripe

\* the live values st2 holds differ from the present ones: a bucket field, a
\* usage counter, or a stripe's block_sectors or blocks_nonempty
DoneChangedLive(st2) ==
    \/ st2.buckets[0] # buckets[0]
    \/ st2.usage[0] # usage[0]
    \/ \E pos \in 1..Len(st2.stripes[0]) :
          \/ st2.stripes[0][pos].block_sectors # StripeAt(stripes[0], pos).block_sectors
          \/ st2.stripes[0][pos].blocks_nonempty # StripeAt(stripes[0], pos).blocks_nonempty

\* C23: whenever bch2_gc_done changes a live value (a bucket field, oldest_gen
\* included, a stripe's block_sectors or blocks_nonempty, a usage counter),
\* BCH_FS_NEED_ALLOC_WRITE is set when it returns.
C23_DoneChangeSetsAllocWrite ==
    gc_pc = "done" =>
        (DoneChangedLive(bch2_gc_done(GcState, gc_initial).st) =>
            "BCH_FS_NEED_ALLOC_WRITE" \in bch2_gc_done(GcState, gc_initial).st.flags)

\* bch2_gc stands before bch2_gc_done with a bucket whose shadow oldest_gen
\* differs from the live one and nothing else to reconcile
C23_Witness ==
    /\ gc_pc = "done"
    /\ "BCH_FS_NEED_ALLOC_WRITE" \notin flags
    /\ \E b \in GcBuckets : buckets[0][b].oldest_gen # buckets[1][b].oldest_gen
    /\ \A b \in GcBuckets : gc_done_wrong(GcState, b) = {}
    /\ \A f \in UsageFields : usage[0][f] = usage[1][f]

\* a stripe of the shadow radix tree differs in shape from the live stripe of
\* its slot
DoneStripeConfused ==
    \E pos \in 1..Len(stripes[1]) :
        \/ StripeAt(stripes[0], pos).alive # stripes[1][pos].alive
        \/ StripeAt(stripes[0], pos).sectors # stripes[1][pos].sectors
        \/ StripeAt(stripes[0], pos).algorithm # stripes[1][pos].algorithm
        \/ StripeAt(stripes[0], pos).nr_blocks # stripes[1][pos].nr_blocks
        \/ StripeAt(stripes[0], pos).nr_redundant # stripes[1][pos].nr_redundant

\* C24: when bch2_gc_done runs with a shadow stripe that differs from the
\* live stripe in alive, sectors, algorithm, nr_blocks or nr_redundant, it
\* returns -EINVAL, and neither it nor the rest of the call copies a bucket
\* field or a usage counter from shadow to live.
C24_ConfusedStripeCopiesNothing ==
    [][/\ (gc_pc = "done" /\ DoneStripeConfused) =>
              /\ gc_pc' = "finish"
              /\ gc_ret' = "-EINVAL"
              /\ buckets'[0] = buckets[0]
              /\ usage'[0] = usage[0]
       /\ (gc_pc = "finish" /\ gc_ret # "0") =>
              /\ buckets'[0] = buckets[0]
              /\ usage'[0] = usage[0]]_vars

\* bch2_gc_done has returned -EINVAL at the second stripe, after it copied
\* the block_sectors of the first, with a bucket field and a usage counter
\* still differing from shadow
C24_Witness ==
    /\ gc_pc = "finish"
    /\ gc_ret = "-EINVAL"
    /\ Len(stripes[1]) = 2
    /\ stripes[0][1] = stripes[1][1]
    /\ h_set_alloc_write
    /\ \E f \in BucketFields : buckets[0]["u1"][f] # buckets[1]["u1"][f]
    /\ \E f \in UsageFields : usage[0][f] # usage[1][f]

----------------------------------------------------------------------------
(* Claims about the locks bch2_gc_done runs under, checked under SpecMut    *)

\* bch2_gc is inside bch2_gc_done
DonePcs == {"done", "done_buckets", "done_usage"}

\* the pass before bch2_gc_done went all the way: the superblock and the
\* journal bucket are marked in shadow, the loop over the btrees is past the
\* last btree, the free lists and every open-bucket slot were visited, and
\* no step set ret
DonePassComplete ==
    /\ gc_ret = "0"
    /\ buckets[1]["sb"].data_type = "sb"
    /\ buckets[1]["journal"].data_type = "journal"
    /\ gc_i > Len(btree_ids)
    /\ buckets[1]["free_inc"].owned_by_allocator
    /\ gc_ob \notin OpenBucketSlots
    /\ gc_pos.phase = "ALLOC"

\* a step of a mutator
MutStep == mut_left' # mut_left

\* C25: every step of bch2_gc_done runs with the journal blocked and
\* mark_lock held for writing by bch2_gc, after the last pass marked the
\* superblocks, swept every btree and marked the allocator's buckets without
\* an error; and no mutator, which holds mark_lock for reading, takes a step
\* between the steps of bch2_gc_done.
C25_DoneUnderLocksAfterPass ==
    /\ [](gc_pc \in DonePcs =>
             /\ {"journal_block", "mark_lock", "gc_lock"} \subseteq gc_held
             /\ DonePassComplete)
    /\ [][(gc_pc \in DonePcs) => ~MutStep]_vars

\* bch2_gc_done is at its bucket loop on an online run beside which a
\* mutator has changed a reference and still has a change to make
C25_Witness ==
    /\ gc_pc = "done_buckets"
    /\ ~gc_initial
    /\ mut_left \in 1..(MaxMuts - 1)
    /\ DonePassComplete

----------------------------------------------------------------------------
(* Claims about the shadow arrays while gc_pos says a pass is running,      *)
(* checked under Spec                                                       *)

\* what a task that holds mark_lock may see: bch2_gc is not inside one of
\* its sections under mark_lock held for writing
MarkLockFree == "mark_lock" \notin gc_held

\* C26: whenever gc_pos, read by a task that holds mark_lock, is not
\* NOT_RUNNING, the shadow bucket array and the shadow usage are allocated
\* and the shadow array has the first_bucket and nbuckets of the live one;
\* restarts within one call of bch2_gc and allocation failures in
\* bch2_gc_start included.
C26_RunningHasShadow ==
    (MarkLockFree /\ gc_pos.phase # "NOT_RUNNING") =>
        /\ gc_alloc = {AllocOrder[i] : i \in 1..Len(AllocOrder)}
        /\ gc_dims = LiveDims

\* a second pass of one call of bch2_gc is under way, mark_lock not held
C26_Witness ==
    /\ MarkLockFree
    /\ gc_pos.phase \notin {"NOT_RUNNING", "START"}
    /\ gc_iter >= 1
    /\ h_passes >= 2
    /\ gc_dims = LiveDims

\* the restart has reset the position and not yet freed the shadow state;
\* and bch2_gc_start has failed half way through its allocations
C26_WitnessBetween ==
    \/ gc_pc = "restart_free" /\ gc_pos.phase = "NOT_RUNNING" /\ gc_alloc # {}
    \/ gc_pc = "out" /\ gc_ret = "-ENOMEM" /\ gc_alloc # {} /\ gc_pos.phase = "NOT_RUNNING"

----------------------------------------------------------------------------
(* Claims about unreadable nodes, checked under Spec                        *)

\* the node whose keys lead to node c
ParentOf(ns, c) ==
    CHOOSE n \in NodeIds : \E j \in 1..Len(ns[n].keys) : ns[n].keys[j].child = c

\* the other nodes the iterator over the parent of c leads to in st
Siblings(st, c) ==
    {m \in NodeIds \ {c} :
        \E j \in 1..Len(btree_and_journal_iter(st.nodes[ParentOf(st.nodes, c)],
                                                st.journal_keys)) :
            btree_and_journal_iter(st.nodes[ParentOf(st.nodes, c)],
                                   st.journal_keys)[j].child = m}

\* in st the key that led to node c is deleted in the overlay and the
\* iterator over c's parent no longer returns it
ChildKeyDeleted(st, c) ==
    /\ \E e \in st.journal_keys :
          /\ e.btree_id = st.nodes[c].btree_id
          /\ e.level = st.nodes[c].level + 1
          /\ e.pos = st.nodes[c].key.p
          /\ e.deleted
    /\ \A j \in 1..Len(btree_and_journal_iter(st.nodes[ParentOf(st.nodes, c)],
                                              st.journal_keys)) :
          btree_and_journal_iter(st.nodes[ParentOf(st.nodes, c)],
                                 st.journal_keys)[j].child # c

\* in st every key of node m has been marked by the pass
NodeVisited(st, m) ==
    \A j \in 1..Len(btree_and_journal_iter(st.nodes[m], st.journal_keys)) :
        \E i \in 1..Len(st.marked) :
            st.marked[i].id =
                KeyId(st.nodes[m].btree_id, st.nodes[m].level, FALSE,
                      btree_and_journal_iter(st.nodes[m], st.journal_keys)[j])

\* r = [st, ret] of bch2_gc_btree_init on st0 during which the reads of the
\* nodes in eio failed
UnreadableHandled(r, st0, eio) ==
    /\ r.ret # "-EIO"
    /\ "BCH_FS_NEED_ANOTHER_GC" \in r.st.flags
    /\ \A c \in eio :
          /\ ChildKeyDeleted(r.st, c)
          /\ \A m \in Siblings(st0, c) \ eio : NodeVisited(r.st, m)

\* C27: in the initial mode, when the read of a child node fails with -EIO
\* (the repair allowed), the child's key is deleted in the journal-key
\* overlay, BCH_FS_NEED_ANOTHER_GC is set, the child's siblings are still
\* visited by the same pass, and -EIO is not what the walk of the btree
\* returns.
C27_UnreadableChildSkipped ==
    (InBtrees /\ gc_initial) =>
        \A eio \in (SUBSET ChildNodes(bubble_sort(btree_ids)[gc_i])) \ {{}} :
            (/\ Cardinality(eio) <= eio_left
             /\ bch2_gc_btree_init(GcState, bubble_sort(btree_ids)[gc_i], eio).st.eio
                    = Cardinality(eio))
            => UnreadableHandled(
                   bch2_gc_btree_init(GcState, bubble_sort(btree_ids)[gc_i], eio),
                   GcState, eio)

\* the first of the two nodes under the root of extents was unreadable: its
\* key is deleted, the other node and the leaf below it were visited, and
\* the loop over the btrees goes on
C27_Witness ==
    /\ gc_initial
    /\ gc_pc = "btrees"
    /\ gc_ret = "0"
    /\ [msg |-> "unreadable btree node", bucket |-> ""] \in h_fsck
    /\ "BCH_FS_NEED_ANOTHER_GC" \in flags
    /\ ChildKeyDeleted(GcState, 2)
    /\ NodeVisited(GcState, 3)
    /\ NodeVisited(GcState, 5)

----------------------------------------------------------------------------
(* bch2_gc under memory pressure: the kmalloc of a repair may fail          *)

\* the most kmalloc calls that fail beside one filesystem's calls of bch2_gc
MaxNoMem == 1

\* a filesystem with up to MaxFaults faults, no open bucket in use, every
\* node readable, and MaxNoMem failing kmallocs ahead
InitNoMem ==
    /\ \E F \in GcFaultSets :
         /\ GcInitOn(F, {}, TRUE, 0, 0)
         /\ buckets = [a \in 0..1 |->
                         IF a = 0 THEN [b \in GcBuckets |-> InitLiveBucket(F, {}, b)]
                         ELSE ZeroGcBuckets]
    /\ flags = {}
    /\ journal_keys = {}
    /\ gc_count = 0
    /\ nomem_left = MaxNoMem
    /\ GensIdle
    /\ LockIdle
    /\ StripesIdle
    /\ ThreadIdle
    /\ CoIdle

SpecNoMem == InitNoMem /\ [][Next]_vars

----------------------------------------------------------------------------
(* Claims about the order of the sweep and its first error, checked under   *)
(* SpecNoMem                                                                *)

\* the btrees are taken in an order in which the phase never decreases
SweepInPhaseOrder ==
    \A i, j \in 1..Len(btree_ids) :
        i < j => PhaseNr(btree_id_to_gc_phase(bubble_sort(btree_ids)[i]))
                     <= PhaseNr(btree_id_to_gc_phase(bubble_sort(btree_ids)[j]))

\* bch2_gc_mark_key has returned an error during the current pass
MarkingFailed == h_err # <<>>

\* C28: the btrees are swept in an order of non-decreasing gc_phase; and
\* once the marking of a key has returned an error e, no key is marked
\* after it, in its btree or in a later one, the allocator's buckets are
\* not marked, and bch2_gc returns e.
C28_FirstErrorEndsGc ==
    /\ SweepInPhaseOrder
    /\ MarkingFailed =>
          /\ Len(h_marked) = h_err[1].nmarked
          /\ gc_pc \in {"out", "finish", "idle"}
          /\ ~buckets[1]["free_inc"].owned_by_allocator
          /\ gc_ret = h_err[1].e

\* the marking of a key of an interior node failed for want of memory, and
\* bch2_gc has gone on to mark the allocator's buckets with ret = 0
C28_Witness ==
    /\ MarkingFailed
    /\ h_err[1].e = "-ENOMEM"
    /\ h_marked[h_err[1].nmarked].id.level > 0
    /\ ~h_marked[h_err[1].nmarked].id.is_root
    /\ Len(h_marked) > h_err[1].nmarked
    /\ gc_pc = "pass_end"
    /\ gc_ret = "0"

\* the marking of the key of a root failed and bch2_gc has returned its error
C28_WitnessRoot ==
    /\ MarkingFailed
    /\ GcReturned
    /\ h_err[1].e = "-EINVAL"
    /\ gc_ret = "-EINVAL"

----------------------------------------------------------------------------
(* bch2_gc_thread, with the tasks that kick it, advance the write clock and *)
(* stop it.  th.pc is the line the thread is about to run; th.task_state is *)
(* the state of its task, which schedule() leaves only when it is RUNNING.  *)

\* the most kicks, and the most ticks of the write clock
MaxKicks == 2
MaxClock == 4

\* c->capacity
ThCapacity == 32

thFrame == <<bucketVars, gensVars, gcVars, lockVars, co, stripes>>

\* a slip: a changed kick_gc is not taken for a reason to run
gc_thread_kicked_never(kick_gc, last_kick) == FALSE

\* atomic_read(&c->kick_gc) != last_kick
gc_thread_kicked(kick_gc, last_kick) == kick_gc # last_kick

\* a slip: the deadline is half as far
gc_thread_next_half(last, capacity) == last + capacity \div 32

\* next = last + c->capacity / 16
gc_thread_next(last, capacity) == last + capacity \div 16

\* wake_up_process(p)
wake_up_process(t) == [t EXCEPT !.task_state = "RUNNING"]

\* bch2_gc_thread_start: kthread_create may fail
ThStart ==
    /\ th.pc = "off"
    /\ th.start_ret = "none"
    /\ \/ th' = wake_up_process([th EXCEPT !.gc_thread = TRUE, !.pc = "entry",
                                           !.start_ret = "0"])
       \/ th' = [th EXCEPT !.start_ret = "-ENOMEM"]
    /\ UNCHANGED thFrame

\* the declarations of bch2_gc_thread: last and last_kick are sampled
ThEntry ==
    /\ th.pc = "entry"
    /\ th' = [th EXCEPT !.last = th.now, !.last_kick = th.kick_gc,
                        !.h_base = th.kick_gc, !.pc = "set_state"]
    /\ UNCHANGED thFrame

\* set_current_state(TASK_INTERRUPTIBLE)
ThSetState ==
    /\ th.pc = "set_state"
    /\ th' = [th EXCEPT !.task_state = "INTERRUPTIBLE", !.pc = "chk_stop"]
    /\ UNCHANGED thFrame

\* if (kthread_should_stop()) { __set_current_state(TASK_RUNNING); return 0; }
ThCheckStop ==
    /\ th.pc = "chk_stop"
    /\ th' = IF th.should_stop
             THEN [th EXCEPT !.task_state = "RUNNING", !.ret = "0", !.pc = "exited"]
             ELSE [th EXCEPT !.pc = "chk_kick"]
    /\ UNCHANGED thFrame

\* if (atomic_read(&c->kick_gc) != last_kick) break;
ThCheckKick ==
    /\ th.pc = "chk_kick"
    /\ th' = IF gc_thread_kicked(th.kick_gc, th.last_kick)
             THEN [th EXCEPT !.pc = "sample"]
             ELSE [th EXCEPT !.pc = "chk_clock"]
    /\ UNCHANGED thFrame

\* if (c->btree_gc_periodic) ... else schedule(): the thread breaks out when
\* the clock has reached next, or goes to sleep, with a timer at next in
\* the periodic mode
ThCheckClock ==
    /\ th.pc = "chk_clock"
    /\ th' = IF th.periodic
             THEN IF th.now >= gc_thread_next(th.last, ThCapacity)
                  THEN [th EXCEPT !.pc = "sample"]
                  ELSE [th EXCEPT !.timer = gc_thread_next(th.last, ThCapacity),
                                  !.pc = "sleep"]
             ELSE [th EXCEPT !.pc = "sleep"]
    /\ UNCHANGED thFrame

\* schedule() returns, the task being RUNNING; the timer is taken off;
\* try_to_freeze()
ThSchedule ==
    /\ th.pc = "sleep"
    /\ th.task_state = "RUNNING"
    /\ th' = [th EXCEPT !.timer = 0, !.pc = "set_state"]
    /\ UNCHANGED thFrame

\* after the inner loop: __set_current_state(TASK_RUNNING), last and
\* last_kick are sampled anew
ThSample ==
    /\ th.pc = "sample"
    /\ th' = [th EXCEPT !.task_state = "RUNNING", !.last = th.now,
                        !.last_kick = th.kick_gc, !.pc = "gens"]
    /\ UNCHANGED thFrame

\* ret = bch2_gc_gens(c): the pass starts
ThGensStart ==
    /\ th.pc = "gens"
    /\ th' = [th EXCEPT !.passes = @ + 1, !.h_seen = th.kick_gc, !.pc = "gens_run"]
    /\ UNCHANGED thFrame

\* bch2_gc_gens returns
ThGensEnd ==
    /\ th.pc = "gens_run"
    /\ th' = [th EXCEPT !.pc = "set_state"]
    /\ UNCHANGED thFrame

\* a step of the thread itself
ThStep ==
    \/ ThEntry
    \/ ThSetState
    \/ ThCheckStop
    \/ ThCheckKick
    \/ ThCheckClock
    \/ ThSchedule
    \/ ThSample
    \/ ThGensStart
    \/ ThGensEnd

\* a task kicks gc: atomic_inc(&c->kick_gc), the wake-up still to come
ThKick ==
    /\ th.kick_gc < MaxKicks
    /\ th' = [th EXCEPT !.kick_gc = @ + 1, !.kick_wakes = @ + 1,
                        !.h_run_kick = IF th.pc = "gens_run" THEN th.kick_gc + 1 ELSE @,
                        !.h_sleep_kick = IF th.pc = "sleep" THEN th.kick_gc + 1 ELSE @]
    /\ UNCHANGED thFrame

\* the kicking task goes on: if (c->gc_thread) wake_up_process(c->gc_thread)
ThKickWake ==
    /\ th.kick_wakes > 0
    /\ th' = IF th.gc_thread
             THEN wake_up_process([th EXCEPT !.kick_wakes = @ - 1])
             ELSE [th EXCEPT !.kick_wakes = @ - 1]
    /\ UNCHANGED thFrame

\* the write clock advances; a timer that is due wakes its task
ThClockTick ==
    /\ th.now < MaxClock
    /\ th' = IF th.timer # 0 /\ th.now + 1 >= th.timer
             THEN wake_up_process([th EXCEPT !.now = @ + 1])
             ELSE [th EXCEPT !.now = @ + 1]
    /\ UNCHANGED thFrame

\* bch2_gc_thread_stop with c->gc_thread set: kthread_stop(p) asks the
\* thread to stop and wakes it
ThStop ==
    /\ th.gc_thread
    /\ th' = wake_up_process([th EXCEPT !.gc_thread = FALSE, !.should_stop = TRUE])
    /\ UNCHANGED thFrame

\* no thread yet; the periodic mode is on or off, and the filesystem may
\* have been kicked before
InitThread ==
    /\ \E periodic \in BOOLEAN, kicked \in 0..1 :
         th = [pc |-> "off", task_state |-> "RUNNING", gc_thread |-> FALSE,
               start_ret |-> "none", should_stop |-> FALSE, periodic |-> periodic,
               kick_gc |-> kicked, kick_wakes |-> 0, now |-> 0, timer |-> 0,
               last |-> 0, last_kick |-> 0, ret |-> "none", passes |-> 0,
               h_base |-> 0, h_seen |-> 0, h_run_kick |-> 0, h_sleep_kick |-> 0]
    /\ buckets = <<>>
    /\ flags = {}
    /\ journal_keys = {}
    /\ gc_count = 0
    /\ GensIdle
    /\ GcIdle
    /\ LockIdle
    /\ StripesIdle
    /\ CoIdle

NextThread ==
    \/ ThStart
    \/ ThEntry
    \/ ThSetState
    \/ ThCheckStop
    \/ ThCheckKick
    \/ ThCheckClock
    \/ ThSchedule
    \/ ThSample
    \/ ThGensStart
    \/ ThGensEnd
    \/ ThKick
    \/ ThKickWake
    \/ ThClockTick
    \/ ThStop

SpecThread == InitThread /\ [][NextThread]_vars

\* the thread, once it can run, takes its next step; a task that has
\* incremented kick_gc goes on to its wake_up_process
SpecThreadFair == SpecThread /\ WF_vars(ThStep) /\ WF_vars(ThKickWake)

----------------------------------------------------------------------------
(* Claims about bch2_gc_thread                                              *)

\* the thread has sampled its first baseline
ThStarted == th.pc \notin {"off", "entry"}

\* C29: every change of kick_gc made after the thread sampled its baseline,
\* while it sleeps or while a gens pass runs, is eventually followed by the
\* start of a gens pass that begins after the change, unless the thread is
\* asked to stop first.
C29_NoKickLost ==
    \A n \in 1..MaxKicks :
        (ThStarted /\ th.kick_gc = n /\ n > th.h_base)
            ~> (th.should_stop \/ th.h_seen >= n)

\* a pass has started after a kick that came while the pass before it ran,
\* and after a kick that came while the thread slept, the periodic mode off
C29_Witness ==
    /\ ~th.periodic
    /\ ~th.should_stop
    /\ th.pc = "gens_run"
    /\ th.h_sleep_kick > th.h_base
    /\ th.h_run_kick > th.h_sleep_kick
    /\ th.h_seen >= th.h_run_kick

\* C30: when the thread sees at its check that it was asked to stop it
\* returns 0 and starts no further pass, whatever kick or deadline is
\* pending; and it leaves its inner loop for a pass only when kick_gc
\* differs from last_kick or, in the periodic mode, the write clock has
\* reached last + capacity / 16.
C30_StopFirstThenKickOrClock ==
    /\ [][(th.pc = "chk_stop" /\ th.should_stop /\ th'.pc # th.pc) =>
             (th'.pc = "exited" /\ th'.ret = "0" /\ th'.passes = th.passes)]_vars
    /\ [][(th.pc = "exited") => (th'.pc = "exited" /\ th'.passes = th.passes)]_vars
    /\ [][(th'.pc = "chk_kick" /\ th.pc # "chk_kick") =>
             (th.pc = "chk_stop" /\ ~th.should_stop)]_vars
    /\ [][(th'.pc = "sample" /\ th.pc # "sample") =>
             th.pc \in {"chk_kick", "chk_clock"}]_vars
    /\ [][(th'.passes # th.passes) => th.pc = "gens"]_vars
    /\ [][(th'.pc = "gens" /\ th.pc # "gens") => th.pc = "sample"]_vars
    /\ [](th.pc = "sample" =>
             \/ th.kick_gc # th.last_kick
             \/ th.periodic /\ th.now >= th.last + ThCapacity \div 16)

\* the thread has returned 0 on a stop request with a kick pending and, the
\* periodic mode on, its deadline passed, after a pass it ran for the clock
C30_Witness ==
    /\ th.pc = "exited"
    /\ th.ret = "0"
    /\ th.periodic
    /\ th.passes = 1
    /\ th.kick_gc # th.last_kick
    /\ th.last > 0
    /\ th.now >= th.last + ThCapacity \div 16

----------------------------------------------------------------------------
(* Claims about the keylist of bch2_coalesce_nodes, checked under           *)
(* SpecCoalesce                                                             *)

\* the positions of the keys of the nodes ns
NodePositions(ns) == {ns[j].max_key : j \in 1..Len(ns)}

\* C31: the key list bch2_coalesce_nodes hands to bch2_btree_insert_node holds
\* one key per new node and one deletion key for exactly those old nodes whose
\* position is no new node's position, and nothing else; its positions
\* strictly increase from key to key.  After the insert the parent holds, at
\* the positions from the leftmost old node's min_key to the rightmost old
\* node's max_key, exactly the keys of the new nodes, none of an old node,
\* and to the right of them what it held before.
C31_KeylistOverwritesOldKeys ==
    LET l == co.keylist
        oldp == NodePositions(co.old_nodes)
        newp == NodePositions(co.new_nodes)
        lo == co.old_nodes[Len(co.old_nodes)].min_key
        hi == co.old_nodes[1].max_key
    IN  /\ co.pc = "insert" =>
              /\ \A p \in newp :
                    Cardinality({m \in 1..Len(l) : l[m] = [p |-> p, type |-> "btree_ptr",
                                                           new |-> TRUE]}) = 1
              /\ \A p \in oldp :
                    Cardinality({m \in 1..Len(l) : l[m].type = "deleted" /\ l[m].p = p})
                        = IF p \in newp THEN 0 ELSE 1
              /\ Len(l) = Len(co.new_nodes) + Cardinality(oldp \ newp)
              /\ Cardinality(newp) = Len(co.new_nodes)
              /\ \A m \in 1..(Len(l) - 1) : l[m].p < l[m + 1].p
        /\ co.pc = "done" =>
              /\ co.keylist = <<>>
              /\ {k \in co.parent : lo <= k.p /\ k.p <= hi}
                     = {[p |-> p, type |-> "btree_ptr", new |-> TRUE] : p \in newp}
              /\ {k \in co.parent : k.p > hi} = {k \in CoParent(co.old_nodes) : k.p > hi}

\* a window of three nodes has become two and its keys are in the parent: one
\* old position is gone for good, one is taken over by a new node and one new
\* node ends at a position no old node had
C31_Witness ==
    /\ co.pc = "done"
    /\ Len(co.old_nodes) = 3 /\ Len(co.new_nodes) = 2
    /\ NodePositions(co.old_nodes) \ NodePositions(co.new_nodes) # {}
    /\ NodePositions(co.old_nodes) \cap NodePositions(co.new_nodes) # {}
    /\ NodePositions(co.new_nodes) \ NodePositions(co.old_nodes) # {}
    /\ \E k \in co.parent : k.new
    /\ \E k \in co.parent : ~k.new

----------------------------------------------------------------------------
(* Claims about bch2_coalesce and c->gc_lock, checked under SpecLock        *)

\* C32: whenever bch2_coalesce has returned, by whichever path, it has given
\* up its read hold of gc_lock: every read hold of the lock belongs to a call
\* of bch2_gc_gens or bch2_coalesce that has not returned yet, so a bch2_gc
\* standing at its down_write gets the lock once those calls are over.
C32_CoalesceReturnsUnlocked == LockLeaks = 0

\* bch2_coalesce has returned from inside its loop: no call is running, the
\* lock has a reader, and a call of bch2_gc stands at its down_write
C32_Witness ==
    \E t \in LockThreads :
        /\ lk_pc[t] = "gc_1007"
        /\ \A u \in LockThreads \ {t} : lk_pc[u] = "idle"
        /\ ~gc_lock.writer /\ gc_lock.readers > 0
        /\ ~down_write_may(gc_lock)

====
